---------------------------- MODULE Spec2Model ----------------------------
(***************************************************************************)
(* dotmate: rendering of fixed-size 1-bit status images for e-ink          *)
(* displays.  The module models the font manager (font/manager.py), the    *)
(* layout helpers of the title card (view/title_image.py), the scenario    *)
(* renderers (view/*.py) and the view factory (view/factory.py).           *)
(*                                                                         *)
(* Several specifications share the variables:                             *)
(*   SpecWrap  TitleImageView._wrap_text on bounded inputs                 *)
(***************************************************************************)
EXTENDS Integers, Sequences, FiniteSets, TLC

VARIABLES
    pc,          \* position of the modelled caller: "start", then "done"
    text,        \* _wrap_text / _calculate_optimal_font_size: the text
    font,        \* _wrap_text: the font the lines are measured with
    max_width,   \* _wrap_text / _calculate_optimal_font_size: max_width
    lines,       \* _wrap_text: the returned list of lines
    fs,          \* the font files of the machine
    fm,          \* a FontManager: _system_fonts, _font_cache
    call,        \* the last call made on the FontManager
    ret,         \* what that call returned or raised
    calls_left,  \* calls the modelled caller still makes
    fit,         \* _calculate_optimal_font_size: the other arguments, the result
    view_registry, \* ViewFactory._view_registry: view type -> view class
    request,     \* the last call made on the ViewFactory, with its inputs
    outcome      \* what that call raised, called and handed to the client

wrapVars == <<text, font, max_width, lines>>
fontVars == <<fm, call, ret, calls_left>>
factoryVars == <<view_registry, request, outcome>>
vars == <<pc, wrapVars, fs, fontVars, fit, factoryVars>>

\* Value of a variable a specification does not use.
Unused == "unused"

(***************************************************************************)
(* Text.  A Python str is a sequence of characters.  The alphabet has a    *)
(* narrow and a wide glyph and the two whitespace characters the views     *)
(* produce (WorkView joins its message and the time with a newline).       *)
(***************************************************************************)
Glyphs == {"i", "m"}
Whitespace == {" ", "\n"}
Chars == Glyphs \cup Whitespace

\* Bound: longest text of the wrap specification.
MaxTextLen == 5

RECURSIVE SeqsUpTo(_, _)
SeqsUpTo(S, n) ==
    IF n = 0 THEN {<<>>}
    ELSE LET shorter == SeqsUpTo(S, n - 1)
         IN  shorter \cup {Append(s, c) : s \in {t \in shorter : Len(t) = n - 1}, c \in S}

\* str.split() with no argument: the maximal runs of non-whitespace
\* characters, in order; leading, trailing and repeated whitespace yield no
\* empty word.
RECURSIVE SplitFrom(_, _, _, _)
SplitFrom(s, i, cur, acc) ==
    IF i > Len(s) THEN (IF cur = <<>> THEN acc ELSE Append(acc, cur))
    ELSE IF s[i] \in Whitespace
         THEN SplitFrom(s, i + 1, <<>>, IF cur = <<>> THEN acc ELSE Append(acc, cur))
         ELSE SplitFrom(s, i + 1, Append(cur, s[i]), acc)

split(s) == SplitFrom(s, 1, <<>>, <<>>)

\* ' '.join(words)
RECURSIVE join(_)
join(words) ==
    IF words = <<>> THEN <<>>
    ELSE IF Len(words) = 1 THEN words[1]
    ELSE words[1] \o <<" ">> \o join(Tail(words))


(***************************************************************************)
(* Fonts and text measurement.  A loaded font is a record: kind is the     *)
(* Python type, FreeTypeFont for a font file loaded by ImageFont.truetype  *)
(* and ImageFont for the fixed-size bitmap font of ImageFont.load_default. *)
(***************************************************************************)
NoWeight == 0   \* font_weight None (and a font at its default weight)

TrueTypeFont(path, size) ==
    [kind |-> "FreeTypeFont", path |-> path, size |-> size, weight |-> NoWeight]

\* ImageFont.load_default(): takes no size, always succeeds.
DefaultFont ==
    [kind |-> "ImageFont", path |-> [dir |-> "builtin", name |-> <<>>], size |-> 0,
     weight |-> NoWeight]

\* FontManager.is_default_font: a FreeTypeFont is never the default font;
\* anything else is compared by type with ImageFont.load_default().
is_default_font(f) ==
    IF f.kind = "FreeTypeFont" THEN FALSE ELSE f.kind = DefaultFont.kind

\* Glyph advances of a scalable font in tenths of the font size, and the
\* metrics of the bitmap font (6 x 11 pixel cells).
\* CJK characters, written by their pinyin, are one em wide.
CJK == {"hai", "you", "duo", "jiu", "xia", "ban", "ju", "xiao", "shi", "fen",
        "zhong", "yi", "jing", "la", "jian", "ge", "cuo", "wu"}
Advance(c) ==
    IF c = "m" THEN 8 ELSE IF c = "i" THEN 2 ELSE IF c \in CJK THEN 10 ELSE 3
UnitsPerSize == 10
BitmapCharWidth == 6
BitmapCharHeight == 11
LineSpacing == 4   \* ImageDraw.textbbox default spacing between lines

RECURSIVE SumAdvance(_)
SumAdvance(s) == IF s = <<>> THEN 0 ELSE Advance(Head(s)) + SumAdvance(Tail(s))

\* Width in pixels of one line (no newline) drawn with font f.
LinePixels(s, f) ==
    IF f.kind = "FreeTypeFont" THEN (SumAdvance(s) * f.size) \div UnitsPerSize
    ELSE BitmapCharWidth * Len(s)

\* The physical lines of a text: str.split("\n") as ImageDraw does for
\* multiline text.
RECURSIVE PhysFrom(_, _, _, _)
PhysFrom(s, i, cur, acc) ==
    IF i > Len(s) THEN Append(acc, cur)
    ELSE IF s[i] = "\n" THEN PhysFrom(s, i + 1, <<>>, Append(acc, cur))
         ELSE PhysFrom(s, i + 1, Append(cur, s[i]), acc)

PhysLines(s) == PhysFrom(s, 1, <<>>, <<>>)

Max(a, b) == IF a >= b THEN a ELSE b

RECURSIVE MaxLinePixels(_, _)
MaxLinePixels(ls, f) ==
    IF ls = <<>> THEN 0 ELSE Max(LinePixels(Head(ls), f), MaxLinePixels(Tail(ls), f))

\* bbox = draw.textbbox((0, 0), text, font=font); bbox[2] - bbox[0]
textbbox_width(s, f) == MaxLinePixels(PhysLines(s), f)

\* bbox[3] - bbox[1]
textbbox_height(s, f) ==
    IF s = <<>> THEN 0
    ELSE LET n == Len(PhysLines(s))
             h == IF f.kind = "FreeTypeFont" THEN f.size ELSE BitmapCharHeight
         IN  n * h + (n - 1) * LineSpacing

(***************************************************************************)
(* File names.  A Python str is a sequence of characters, so that lower(), *)
(* endswith(), splitext() and the substring test are computed as the code  *)
(* computes them.                                                          *)
(***************************************************************************)
ToLower ==
    [A |-> "a", B |-> "b", C |-> "c", D |-> "d", E |-> "e", F |-> "f",
     G |-> "g", H |-> "h", I |-> "i", J |-> "j", K |-> "k", L |-> "l",
     M |-> "m", N |-> "n", O |-> "o", P |-> "p", Q |-> "q", R |-> "r",
     S |-> "s", T |-> "t", U |-> "u", V |-> "v", W |-> "w", X |-> "x",
     Y |-> "y", Z |-> "z"]

\* str.lower()
lower(s) == [i \in DOMAIN s |-> IF s[i] \in DOMAIN ToLower THEN ToLower[s[i]] ELSE s[i]]

\* needle in hay
Contains(hay, needle) ==
    \E i \in 0..(Len(hay) - Len(needle)) : SubSeq(hay, i + 1, i + Len(needle)) = needle

\* s.endswith(suffix)
EndsWith(s, suffix) ==
    /\ Len(suffix) <= Len(s)
    /\ SubSeq(s, Len(s) - Len(suffix) + 1, Len(s)) = suffix

\* os.path.splitext(file)[0]: the name up to its last dot (a name with no dot,
\* or only a leading one, has no extension).
splitext_base(file) ==
    LET dots == {i \in DOMAIN file : file[i] = "."}
        last == IF dots = {} THEN 0 ELSE CHOOSE i \in dots : \A j \in dots : j <= i
    IN  IF last <= 1 THEN file ELSE SubSeq(file, 1, last - 1)

\* manager.py lines 18-23
priority_font_keywords ==
    <<<<"s", "o", "u", "r", "c", "e", "h", "a", "n", "s", "a", "n", "s", "s", "c">>,
      <<"s", "o", "u", "r", "c", "e", "h", "a", "n", "s", "c">>,
      <<"n", "o", "t", "o">>>>

chinese_font_keywords ==
    <<<<"p", "i", "n", "g">>,
      <<"f", "a", "n", "g">>,
      <<"h", "i", "r", "a", "g", "i", "n", "o">>,
      <<"g", "b">>,
      <<"h", "e", "i", "t", "i">>,
      <<"s", "o", "n", "g">>,
      <<"k", "a", "i">>,
      <<"w", "q", "y">>,
      <<"m", "i", "c", "r", "o", "h", "e", "i">>,
      <<"z", "e", "n", "h", "e", "i">>,
      <<"m", "s", "y", "h">>,
      <<"y", "a", "h", "e", "i">>,
      <<"s", "i", "m", "s", "u", "n">>,
      <<"s", "i", "m", "h", "e", "i">>>>

english_font_keywords ==
    <<<<"h", "e", "l", "v", "e", "t", "i", "c", "a">>,
      <<"a", "r", "i", "a", "l">>,
      <<"d", "e", "j", "a", "v", "u">>,
      <<"l", "i", "b", "e", "r", "a", "t", "i", "o", "n">>>>

\* manager.py line 149
common_fonts ==
    <<<<"S", "o", "u", "r", "c", "e", "H", "a", "n", "S", "a", "n", "s", "S", "C", "-", "R", "e", "g", "u", "l", "a", "r", ".", "t", "t", "f">>,
      <<"N", "o", "t", "o", "S", "a", "n", "s", "C", "J", "K", "s", "c", "-", "R", "e", "g", "u", "l", "a", "r", ".", "t", "t", "f">>,
      <<"a", "r", "i", "a", "l", ".", "t", "t", "f">>>>

\* The font file extensions: ('.ttf', '.ttc', '.otf') at line 61, and the order
\* ['.ttf', '.otf', '.ttc'] in which line 172 tries them.
font_extensions == <<<<".", "t", "t", "f">>, <<".", "o", "t", "f">>, <<".", "t", "t", "c">>>>

\* manager.py line 119: the bundled best font.
BestFontFile ==
    <<"S", "o", "u", "r", "c", "e", "H", "a", "n", "S", "a", "n", "s", "S",
      "C", "-", "V", "F", ".", "o", "t", "f">>

\* custom_font_name of CodeStatusView, UmamiStatsView, GitHubContributionsView
HackBold == <<"H", "a", "c", "k", "-", "B", "o", "l", "d">>

\* custom_font_name of WorkView
SourceHanSansVF ==
    <<"S", "o", "u", "r", "c", "e", "H", "a", "n", "S", "a", "n", "s", "S",
      "C", "-", "V", "F">>

\* font_name None
NoName == <<>>

\* Files that may be present in the bundled resource directory and in the
\* system font directories.
HackBoldTtf == <<"H", "a", "c", "k", "-", "B", "o", "l", "d", ".", "t", "t", "f">>
NotoTtc == <<"N", "o", "t", "o", "S", "a", "n", "s", ".", "t", "t", "c">>
PingFangTtc == <<"P", "i", "n", "g", "F", "a", "n", "g", ".", "t", "t", "c">>
SongtiTtc == <<"S", "o", "n", "g", "t", "i", ".", "t", "t", "c">>
KaitiTtf == <<"K", "a", "i", "t", "i", ".", "t", "t", "f">>
WqyTtc == <<"w", "q", "y", ".", "t", "t", "c">>
ArialTtf == <<"A", "r", "i", "a", "l", ".", "t", "t", "f">>
HelveticaTtc == <<"H", "e", "l", "v", "e", "t", "i", "c", "a", ".", "t", "t", "c">>
DejaVuTtf == <<"D", "e", "j", "a", "V", "u", ".", "t", "t", "f">>
ReadmeTxt == <<"R", "E", "A", "D", "M", "E", ".", "t", "x", "t">>

(***************************************************************************)
(* The font files of the machine: fs.resource is os.listdir of the bundled *)
(* resource directory (empty when the directory is missing), fs.system the *)
(* files os.walk finds in the platform's font directories, in the order    *)
(* found, fs.loadable the paths ImageFont.truetype can load (any other     *)
(* path makes it raise OSError) and fs.variable the fonts that have        *)
(* variation axes.  A path with dir "" is a bare file name handed to       *)
(* truetype.                                                               *)
(***************************************************************************)
Path(dir, name) == [dir |-> dir, name |-> name]

NoPath == Path("none", <<>>)

\* No font: the value of a call that raised.
NullFont == [kind |-> "None", path |-> NoPath, size |-> 0, weight |-> NoWeight]

NoException == "none"

\* os.path.exists(os.path.join(resource, name))
resource_exists(files, name) == \E i \in DOMAIN files.resource : files.resource[i] = name

\* for path in paths: try: return ImageFont.truetype(path, size)
\*                    except (OSError, IOError): continue
\* NullFont when the loop ends without returning.
RECURSIVE try_each(_, _, _)
try_each(paths, size, files) ==
    IF paths = <<>> THEN NullFont
    ELSE IF Head(paths) \in files.loadable THEN TrueTypeFont(Head(paths), size)
    ELSE try_each(Tail(paths), size, files)

\* s[:n]
Take(s, n) == IF Len(s) <= n THEN s ELSE SubSeq(s, 1, n)

AnyKeyword(keywords, s) == \E k \in DOMAIN keywords : Contains(s, keywords[k])

IsFontFile(file) ==
    \E e \in DOMAIN font_extensions : EndsWith(lower(file), font_extensions[e])

\* self._system_fonts is None
NoCatalog == [discovered |-> FALSE, priority |-> <<>>, chinese |-> <<>>, english |-> <<>>]

\* The walk of FontManager._find_system_fonts over the files found (lines
\* 55-71): a font file goes to the first category one of whose keywords its
\* lower-cased name contains.
RECURSIVE categorize(_, _)
categorize(paths, fonts) ==
    IF paths = <<>> THEN fonts
    ELSE LET font_path == Head(paths)
             file_lower == lower(font_path.name)
             next ==
                 IF ~IsFontFile(font_path.name) THEN fonts
                 ELSE IF AnyKeyword(priority_font_keywords, file_lower)
                      THEN [fonts EXCEPT !.priority = Append(@, font_path)]
                 ELSE IF AnyKeyword(chinese_font_keywords, file_lower)
                      THEN [fonts EXCEPT !.chinese = Append(@, font_path)]
                 ELSE IF AnyKeyword(english_font_keywords, file_lower)
                      THEN [fonts EXCEPT !.english = Append(@, font_path)]
                 ELSE fonts
         IN  categorize(Tail(paths), next)

\* FontManager._find_system_fonts: the bundled directory first, then the
\* platform's directories.
find_system_fonts(files) ==
    categorize([i \in DOMAIN files.resource |-> Path("resource", files.resource[i])]
                   \o [i \in DOMAIN files.system |-> Path("system", files.system[i])],
               [discovered |-> TRUE, priority |-> <<>>, chinese |-> <<>>, english |-> <<>>])

\* The result of a loader: the font it returns, or the exception it raises.
Returns(f) == [font |-> f, exc |-> NoException]
Raises(e) == [font |-> NullFont, exc |-> e]

\* The candidates of _load_best_font in the order it tries them (lines
\* 118-154), before the built-in font.
best_candidates(system_fonts, files) ==
    (IF resource_exists(files, BestFontFile) THEN <<Path("resource", BestFontFile)>> ELSE <<>>)
    \o (IF system_fonts.discovered
        THEN system_fonts.priority \o Take(system_fonts.chinese, 3)
                 \o Take(system_fonts.english, 2)
        ELSE <<>>)
    \o [i \in DOMAIN common_fonts |-> Path("", common_fonts[i])]

\* _load_best_font as it would be with a fault: the well-known
\* names are tried without the try/except, so the first one that fails raises.
load_best_font_unguarded_names(system_fonts, files, size) ==
    LET found == try_each(SubSeq(best_candidates(system_fonts, files), 1,
                                 Len(best_candidates(system_fonts, files)) - Len(common_fonts)),
                          size, files)
    IN  IF found # NullFont THEN Returns(found)
        ELSE IF Path("", common_fonts[1]) \in files.loadable
             THEN Returns(TrueTypeFont(Path("", common_fonts[1]), size))
             ELSE Raises("OSError")

\* FontManager._load_best_font
load_best_font(system_fonts, files, size) ==
    LET found == try_each(best_candidates(system_fonts, files), size, files)
    IN  IF found # NullFont THEN Returns(found) ELSE Returns(DefaultFont)

\* _load_specific_font as it would be with a fault: a name that no bundled
\* file loads for gets the built-in font.
load_specific_font_without_fallback(system_fonts, files, font_name, size) ==
    LET exact == [e \in DOMAIN font_extensions |->
                     Path("resource", font_name \o font_extensions[e])]
        found == try_each(SelectSeq(exact, LAMBDA c : resource_exists(files, c.name)),
                          size, files)
    IN  IF found # NullFont THEN Returns(found) ELSE Returns(DefaultFont)

\* The files of the bundled directory that _load_specific_font tries for
\* font_name, in order: the exact names (lines 172-178), then the partial
\* matches in listing order (lines 181-190).
specific_candidates(files, font_name) ==
    LET exact == [e \in DOMAIN font_extensions |-> font_name \o font_extensions[e]]
        partial(file) ==
            /\ IsFontFile(file)
            /\ LET file_base == lower(splitext_base(file))
               IN  \/ Contains(file_base, lower(font_name))
                   \/ Contains(lower(font_name), file_base)
    IN  SelectSeq(exact, LAMBDA n : resource_exists(files, n))
            \o SelectSeq(files.resource, partial)

\* FontManager._load_specific_font
load_specific_font(system_fonts, files, font_name, size) ==
    LET Try(names) ==
            try_each([i \in DOMAIN names |-> Path("resource", names[i])], size, files)
        Fallback(found) ==
            IF found # NullFont THEN Returns(found)
            ELSE load_best_font(system_fonts, files, size)
    IN  Fallback(Try(specific_candidates(files, font_name)))

\* The weight as it would be applied with a fault: to every font, variable
\* or not.
apply_weight_to_any_font(f, font_weight, files) ==
    IF font_weight # NoWeight THEN [f EXCEPT !.weight = font_weight] ELSE f

\* font.set_variation_by_axes([font_weight]) inside try/except (lines
\* 106-110): a font without variation axes raises OSError, which is ignored.
apply_weight(f, font_weight, files) ==
    IF font_weight # NoWeight /\ f.kind = "FreeTypeFont" /\ f.path \in files.variable
    THEN [f EXCEPT !.weight = font_weight]
    ELSE f

\* A FontManager after __init__ (lines 12-14).  finds counts the runs of
\* _find_system_fonts.
NewFontManager == [system_fonts |-> NoCatalog, font_cache |-> <<>>, finds |-> 0]

\* get_font as it would be with a fault: the cache key leaves out the weight.
get_font_keyed_without_weight(mgr, files, size, font_name, font_weight) ==
    LET cache_key == <<size, font_name, NoWeight>>
        \* lines 105-114: the weight, the cache, the return
        Store(mgr1, loaded) ==
            IF loaded.exc # NoException
            THEN [fm |-> mgr1, font |-> NullFont, exc |-> loaded.exc]
            ELSE LET f == apply_weight(loaded.font, font_weight, files)
                 IN  [fm |-> [mgr1 EXCEPT !.font_cache =
                                 [k \in DOMAIN @ \cup {cache_key} |->
                                     IF k = cache_key THEN f ELSE @[k]]],
                      font |-> f, exc |-> NoException]
        \* lines 98-103 on the manager mgr1, whose fonts are discovered
        Load(mgr1) ==
            Store(mgr1,
                  IF font_name # NoName
                  THEN load_specific_font(mgr1.system_fonts, files, font_name, size)
                  ELSE load_best_font(mgr1.system_fonts, files, size))
    IN  IF cache_key \in DOMAIN mgr.font_cache
        THEN [fm |-> mgr, font |-> mgr.font_cache[cache_key], exc |-> NoException]
        ELSE Load(IF mgr.system_fonts.discovered THEN mgr
                  ELSE [mgr EXCEPT !.system_fonts = find_system_fonts(files),
                                   !.finds = @ + 1])

\* FontManager.get_font: the manager after the call and what the call returns
\* or raises.
get_font(mgr, files, size, font_name, font_weight) ==
    LET cache_key == <<size, font_name, font_weight>>
        \* lines 105-114: the weight, the cache, the return
        Store(mgr1, loaded) ==
            IF loaded.exc # NoException
            THEN [fm |-> mgr1, font |-> NullFont, exc |-> loaded.exc]
            ELSE LET f == apply_weight(loaded.font, font_weight, files)
                 IN  [fm |-> [mgr1 EXCEPT !.font_cache =
                                 [k \in DOMAIN @ \cup {cache_key} |->
                                     IF k = cache_key THEN f ELSE @[k]]],
                      font |-> f, exc |-> NoException]
        \* lines 98-103 on the manager mgr1, whose fonts are discovered
        Load(mgr1) ==
            Store(mgr1,
                  IF font_name # NoName
                  THEN load_specific_font(mgr1.system_fonts, files, font_name, size)
                  ELSE load_best_font(mgr1.system_fonts, files, size))
    IN  IF cache_key \in DOMAIN mgr.font_cache
        THEN [fm |-> mgr, font |-> mgr.font_cache[cache_key], exc |-> NoException]
        ELSE Load(IF mgr.system_fonts.discovered THEN mgr
                  ELSE [mgr EXCEPT !.system_fonts = find_system_fonts(files),
                                   !.finds = @ + 1])

\* get_available_fonts as it would be with a fault: the directories are
\* searched on every call.
get_available_fonts_rediscovering(mgr, files) ==
    [mgr EXCEPT !.system_fonts = find_system_fonts(files), !.finds = @ + 1]

\* FontManager.get_available_fonts
get_available_fonts(mgr, files) ==
    IF mgr.system_fonts.discovered THEN mgr
    ELSE [mgr EXCEPT !.system_fonts = find_system_fonts(files), !.finds = @ + 1]

\* FontManager.clear_cache
clear_cache(mgr) == [mgr EXCEPT !.font_cache = <<>>]

(***************************************************************************)
(* TitleImageView._wrap_text: greedy word wrap.                            *)
(***************************************************************************)
\* The loop over the words as it would be with a fault: an
\* over-long word met with an empty current line is dropped.
RECURSIVE WrapLoopDropsLongWord(_, _, _, _, _, _)
WrapLoopDropsLongWord(words, i, f, w, out, current_line) ==
    IF i > Len(words)
    THEN (IF current_line # <<>> THEN Append(out, join(current_line)) ELSE out)
    ELSE LET word == words[i]
             test_line == join(Append(current_line, word))
             line_width == textbbox_width(test_line, f)
         IN  IF line_width <= w
             THEN WrapLoopDropsLongWord(words, i + 1, f, w, out, Append(current_line, word))
             ELSE IF current_line # <<>>
                  THEN WrapLoopDropsLongWord(words, i + 1, f, w,
                                             Append(out, join(current_line)), <<word>>)
                  ELSE WrapLoopDropsLongWord(words, i + 1, f, w, out, <<>>)

wrap_text_drops_long_word(s, f, w) == WrapLoopDropsLongWord(split(s), 1, f, w, <<>>, <<>>)

\* The loop as it would be with another fault: on overflow the overflowing word is left on the
\* closed line instead of starting the next one.
RECURSIVE WrapLoopKeepsOverflow(_, _, _, _, _, _)
WrapLoopKeepsOverflow(words, i, f, w, out, current_line) ==
    IF i > Len(words)
    THEN (IF current_line # <<>> THEN Append(out, join(current_line)) ELSE out)
    ELSE LET word == words[i]
             test_line == join(Append(current_line, word))
             line_width == textbbox_width(test_line, f)
         IN  IF line_width <= w
             THEN WrapLoopKeepsOverflow(words, i + 1, f, w, out, Append(current_line, word))
             ELSE WrapLoopKeepsOverflow(words, i + 1, f, w, Append(out, test_line), <<>>)

wrap_text_keeps_overflow(s, f, w) == WrapLoopKeepsOverflow(split(s), 1, f, w, <<>>, <<>>)

\* for word in words: ... (lines 82-95), then the final flush (lines 97-98).
RECURSIVE WrapLoop(_, _, _, _, _, _)
WrapLoop(words, i, f, w, out, current_line) ==
    IF i > Len(words)
    THEN (IF current_line # <<>> THEN Append(out, join(current_line)) ELSE out)
    ELSE LET word == words[i]
             test_line == join(Append(current_line, word))
             line_width == textbbox_width(test_line, f)
         IN  IF line_width <= w
             THEN WrapLoop(words, i + 1, f, w, out, Append(current_line, word))
             ELSE IF current_line # <<>>
                  THEN WrapLoop(words, i + 1, f, w, Append(out, join(current_line)), <<word>>)
                  ELSE WrapLoop(words, i + 1, f, w, Append(out, word), <<>>)

wrap_text(s, f, w) == WrapLoop(split(s), 1, f, w, <<>>, <<>>)

(***************************************************************************)
(* TitleImageView._calculate_optimal_font_size: descending search for the  *)
(* largest font size at which the text fits the box.                       *)
(***************************************************************************)
\* int(dim * scale_factor) with scale_factor = font_size / 11.0 (lines 59-61).
\* The product is a double: for the pairs of FloatBelow it falls just under
\* the exact integer quotient and int() truncates to one less.  These are all
\* such pairs among the dimensions of text boxes of the bitmap font (widths
\* 6k up to 234, heights 11 + 15k) and the font sizes up to 50.
FloatBelow ==
    {<<11, 15>>, <<11, 30>>, <<11, 49>>,
     <<198, 3>>, <<198, 6>>, <<198, 12>>, <<198, 24>>, <<198, 48>>, <<198, 49>>}

scale_default(dim, font_size) ==
    LET exact == (dim * font_size) \div BitmapCharHeight
    IN  IF <<dim, font_size>> \in FloatBelow THEN exact - 1 ELSE exact

\* text_width, text_height as compared with the box (lines 52-61).
measured(s, test_font, font_size) ==
    LET text_width == textbbox_width(s, test_font)
        text_height == textbbox_height(s, test_font)
    IN  IF is_default_font(test_font)
        THEN [width |-> scale_default(text_width, font_size),
              height |-> scale_default(text_height, font_size)]
        ELSE [width |-> text_width, height |-> text_height]

\* The search as it would be with a fault: the height of the text
\* is not compared with max_height.
RECURSIVE FitLoopIgnoresHeight(_, _, _, _, _, _, _)
FitLoopIgnoresHeight(mgr, files, s, w, h, font_size, min_size) ==
    LET r == get_font(mgr, files, font_size, NoName, NoWeight)
        loaded == font_size >= min_size /\ r.exc = NoException
    IN  CASE font_size < min_size -> [fm |-> mgr, size |-> min_size]
          [] font_size >= min_size /\ r.exc # NoException -> [fm |-> r.fm, size |-> min_size]
          [] loaded /\ measured(s, r.font, font_size).width <= w ->
                [fm |-> r.fm, size |-> font_size]
          [] OTHER -> FitLoopIgnoresHeight(r.fm, files, s, w, h, font_size - 1, min_size)

fit_ignores_height(mgr, files, s, w, h, initial_size, min_size) ==
    FitLoopIgnoresHeight(mgr, files, s, w, h, initial_size, min_size)

\* while font_size >= min_size: ... font_size -= 1 (lines 46-66); an exception
\* anywhere in it returns min_size (lines 69-70), as does the end of the loop.
RECURSIVE FitLoop(_, _, _, _, _, _, _)
FitLoop(mgr, files, s, w, h, font_size, min_size) ==
    LET r == get_font(mgr, files, font_size, NoName, NoWeight)   \* line 47
        m == measured(s, r.font, font_size)                      \* lines 50-61
        loaded == font_size >= min_size /\ r.exc = NoException
    IN  CASE font_size < min_size -> [fm |-> mgr, size |-> min_size]
          [] font_size >= min_size /\ r.exc # NoException -> [fm |-> r.fm, size |-> min_size]
          [] loaded /\ m.width <= w /\ m.height <= h -> [fm |-> r.fm, size |-> font_size]
          [] OTHER -> FitLoop(r.fm, files, s, w, h, font_size - 1, min_size)

\* The search as it would be with another fault: when no size fits it returns initial_size.
fit_falls_back_to_initial(mgr, files, s, w, h, initial_size, min_size) ==
    LET Fits(m) == m.width <= w /\ m.height <= h
        Check(r) ==
            IF Fits(measured(s, get_font(r.fm, files, r.size, NoName, NoWeight).font,
                             r.size))
            THEN r ELSE [r EXCEPT !.size = initial_size]
    IN  Check(FitLoop(mgr, files, s, w, h, initial_size, min_size))

\* _calculate_optimal_font_size on the view's font manager mgr: the manager
\* after the call and the size returned.
calculate_optimal_font_size(mgr, files, s, w, h, initial_size, min_size) ==
    FitLoop(mgr, files, s, w, h, initial_size, min_size)

(***************************************************************************)
(* Image bytes.  bytes is a sequence of numbers 0..255.  A PNG file is     *)
(* modelled by its signature and the fields of its IHDR chunk (width,      *)
(* height, bit depth, colour type), followed by two bytes standing for the *)
(* pixel data: the layout drawn and the data drawn in it.                  *)
(***************************************************************************)
PngSignature == <<137, 80, 78, 71>>

\* Image.new(mode, (width, height), 1) with what has been drawn on it.
Canvas(mode, width, height, layout, data) ==
    [mode |-> mode, width |-> width, height |-> height, layout |-> layout, data |-> data]

\* PIL modes by PNG bit depth and colour type.
ModeBits == [m \in {"1", "L", "RGB"} |->
                 IF m = "1" THEN <<1, 0>> ELSE IF m = "L" THEN <<8, 0>> ELSE <<8, 2>>]

\* image.save(buffer, format="PNG"); buffer.seek(0); buffer.read()
png_bytes(image) ==
    PngSignature
        \o <<image.width \div 256, image.width % 256,
             image.height \div 256, image.height % 256>>
        \o ModeBits[image.mode]
        \o <<image.layout, image.data>>

NoImage == [mode |-> "none", width |-> 0, height |-> 0, layout |-> 0, data |-> 0]

\* Image.open(io.BytesIO(bytes)): what a receiver decodes; NoImage for bytes
\* that are no PNG file.
png_decode(b) ==
    IF Len(b) >= 12 /\ SubSeq(b, 1, 4) = PngSignature
          /\ \E m \in DOMAIN ModeBits : ModeBits[m] = <<b[9], b[10]>>
    THEN [mode |-> CHOOSE m \in DOMAIN ModeBits : ModeBits[m] = <<b[9], b[10]>>,
          width |-> b[5] * 256 + b[6], height |-> b[7] * 256 + b[8],
          layout |-> b[11], data |-> b[12]]
    ELSE NoImage

\* base64: the alphabet, three bytes to four characters, "=" padding.
Base64Alphabet ==
    <<"A", "B", "C", "D", "E", "F", "G", "H", "I", "J", "K", "L", "M", "N", "O", "P",
      "Q", "R", "S", "T", "U", "V", "W", "X", "Y", "Z", "a", "b", "c", "d", "e", "f",
      "g", "h", "i", "j", "k", "l", "m", "n", "o", "p", "q", "r", "s", "t", "u", "v",
      "w", "x", "y", "z", "0", "1", "2", "3", "4", "5", "6", "7", "8", "9", "+", "/">>

B64Char(n) == Base64Alphabet[n + 1]
B64Index(c) == (CHOOSE i \in DOMAIN Base64Alphabet : Base64Alphabet[i] = c) - 1

\* base64.b64encode(image_data).decode('utf-8')
RECURSIVE b64encode(_)
b64encode(b) ==
    IF b = <<>> THEN <<>>
    ELSE IF Len(b) = 1
    THEN <<B64Char(b[1] \div 4), B64Char((b[1] % 4) * 16), "=", "=">>
    ELSE IF Len(b) = 2
    THEN <<B64Char(b[1] \div 4), B64Char((b[1] % 4) * 16 + b[2] \div 16),
           B64Char((b[2] % 16) * 4), "=">>
    ELSE <<B64Char(b[1] \div 4), B64Char((b[1] % 4) * 16 + b[2] \div 16),
           B64Char((b[2] % 16) * 4 + b[3] \div 64), B64Char(b[3] % 64)>>
             \o b64encode(SubSeq(b, 4, Len(b)))

\* base64.b64decode(payload.image) of a well-formed encoding.
RECURSIVE b64decode(_)
b64decode(c) ==
    IF Len(c) < 4 THEN <<>>
    ELSE LET i1 == B64Index(c[1])
             i2 == B64Index(c[2])
             rest == b64decode(SubSeq(c, 5, Len(c)))
         IN  IF c[3] = "=" THEN <<i1 * 4 + i2 \div 16>>
             ELSE IF c[4] = "="
             THEN <<i1 * 4 + i2 \div 16, (i2 % 16) * 16 + B64Index(c[3]) \div 4>>
             ELSE <<i1 * 4 + i2 \div 16, (i2 % 16) * 16 + B64Index(c[3]) \div 4,
                    (B64Index(c[3]) % 4) * 64 + B64Index(c[4])>> \o rest

(***************************************************************************)
(* Request parameters.  A parameter value carries its Python type; a dict  *)
(* of parameters is a function from the keys present to their values.      *)
(***************************************************************************)
Str(x) == [t |-> "str", s |-> x, n |-> 0, b |-> <<>>]
Txt(chars) == [t |-> "str", s |-> "", n |-> 0, b |-> chars]   \* a str kept by character
IntVal(k) == [t |-> "int", s |-> "", n |-> k, b |-> <<>>]
Bytes(x) == [t |-> "bytes", s |-> "", n |-> 0, b |-> x]
None == [t |-> "none", s |-> "", n |-> 0, b |-> <<>>]
AList == [t |-> "list", s |-> "", n |-> 0, b |-> <<>>]        \* a value of no field's type

DitherTypes == {"DIFFUSION", "ORDERED", "NONE"}
DitherKernels ==
    {"THRESHOLD", "ATKINSON", "BURKES", "FLOYD_STEINBERG", "SIERRA2", "STUCKI",
     "JARVIS_JUDICE_NINKE", "DIFFUSION_ROW", "DIFFUSION_COLUMN", "DIFFUSION2_D"}

\* A field of a pydantic model: its type, whether None is allowed
\* (Optional[...]), whether it may be left out and the default it then takes,
\* and for a Literal the values allowed.
Required(type) ==
    [type |-> type, optional |-> FALSE, required |-> TRUE, default |-> None, allowed |-> {}]
Defaulted(type, default) ==
    [type |-> type, optional |-> FALSE, required |-> FALSE, default |-> default,
     allowed |-> {}]
Optional(type, default) ==
    [type |-> type, optional |-> TRUE, required |-> FALSE, default |-> default,
     allowed |-> {}]
OptionalLiteral(allowed, default) ==
    [type |-> "str", optional |-> TRUE, required |-> FALSE, default |-> default,
     allowed |-> allowed]

\* link, border, dither_type, dither_kernel as every image params class
\* declares them; dither_type defaults to "NONE" in the rendering views and to
\* None in ImageParams.
HintFields(dither_default) ==
    [link |-> Optional("str", None),
     border |-> Optional("int", None),
     dither_type |-> OptionalLiteral(DitherTypes, dither_default),
     dither_kernel |-> OptionalLiteral(DitherKernels, None)]

WorkParams == [clock_in |-> Required("str"), clock_out |-> Required("str")]
TextParams == [message |-> Required("str"), title |-> Optional("str", None)]
CodeStatusParams ==
    [wakatime_url |-> Required("str"), wakatime_api_key |-> Required("str"),
     wakatime_user_id |-> Required("str")] @@ HintFields(Str("NONE"))
ImageParams == [image_data |-> Required("bytes")] @@ HintFields(None)
TitleImageParams ==
    [main_title |-> Required("str"), sub_title |-> Optional("str", None)]
        @@ HintFields(Str("NONE"))
UmamiStatsParams ==
    [umami_host |-> Required("str"), umami_website_id |-> Required("str"),
     umami_api_key |-> Required("str"), umami_time_range |-> Defaulted("str", Str("24h")),
     title |-> Optional("str", None)] @@ HintFields(Str("NONE"))
GitHubContributionsParams ==
    [github_username |-> Required("str"), github_token |-> Required("str")]
        @@ HintFields(Str("NONE"))

\* get_params_class of each view class
params_class(view_class) ==
    CASE view_class = "WorkView" -> WorkParams
      [] view_class = "TextView" -> TextParams
      [] view_class = "CodeStatusView" -> CodeStatusParams
      [] view_class = "ImageView" -> ImageParams
      [] view_class = "TitleImageView" -> TitleImageParams
      [] view_class = "UmamiStatsView" -> UmamiStatsParams
      [] view_class = "GitHubContributionsView" -> GitHubContributionsParams

\* A value is acceptable for a field.
Conforms(field, v) ==
    \/ field.optional /\ v.t = "none"
    \/ /\ v.t = field.type
       /\ field.allowed # {} => v.s \in field.allowed

\* The fields of a dict that make the model's constructor raise
\* ValidationError: a required field missing, a value of the wrong type.
Violations(schema, d) ==
    {f \in DOMAIN schema :
        IF f \in DOMAIN d THEN ~Conforms(schema[f], d[f]) ELSE schema[f].required}

\* Validation as it would be with a fault: missing fields are overlooked.
validate_ignores_missing(schema, d) ==
    LET bad == {f \in DOMAIN schema \cap DOMAIN d : ~Conforms(schema[f], d[f])}
    IN  [ok |-> bad = {}, fields |-> bad,
         obj |-> [f \in DOMAIN schema |->
                     IF f \in DOMAIN d /\ f \notin bad THEN d[f] ELSE schema[f].default]]

\* params_class(**params_dict): the validated object (every field of the
\* model, defaults filled in; keys the model does not declare are ignored), or
\* the fields that violate the schema.
validate(schema, d) ==
    LET bad == Violations(schema, d)
    IN  [ok |-> bad = {}, fields |-> bad,
         obj |-> [f \in DOMAIN schema |->
                     IF f \in DOMAIN d /\ f \notin bad THEN d[f] ELSE schema[f].default]]

(***************************************************************************)
(* The views.  Executing a view yields an outcome: the exception that      *)
(* propagates to the caller (NoException when execute returns), the pieces *)
(* of its message, the fields a validation error reports, the calls made   *)
(* in order (validate, fetch, draw, deliver) and the requests handed to    *)
(* the delivery client.                                                    *)
(***************************************************************************)
Outcome(exc, msg, effects, sent) ==
    [exc |-> exc, msg |-> msg, fields |-> {}, effects |-> effects, sent |-> sent,
     result |-> "None"]

\* The outcome of a call made after the calls of prefix.
After(prefix, o) == [o EXCEPT !.effects = prefix \o @]

\* except Exception as e: print(...)
Swallow(o) == [o EXCEPT !.exc = NoException, !.msg = <<>>, !.fields = {}]

ValidationError(bad) ==
    [Outcome("ValidationError", <<"validation error">>, <<"validate">>, <<>>)
        EXCEPT !.fields = bad]

\* The request a view hands to DotClient.display_image or display_text, and
\* whether the device API accepted it (display_* raises otherwise).
DisplayRequest(kind, device_id, image, title, message, hints, accepted) ==
    [kind |-> kind, refreshNow |-> TRUE, deviceId |-> device_id, image |-> image,
     title |-> title, message |-> message,
     link |-> hints.link, border |-> hints.border,
     ditherType |-> hints.dither_type, ditherKernel |-> hints.dither_kernel,
     accepted |-> accepted]

NoHints == [link |-> None, border |-> None, dither_type |-> None, dither_kernel |-> None]

\* ImageView._encode_image_data
encode_image_data(image_data) == b64encode(image_data)

\* ImageView.execute as it would be with a fault: a delivery the device API
\* refuses is made a second time.
ImageView_execute_retrying(device_id, d, env) ==
    LET v == validate(ImageParams, d)
        r == DisplayRequest("image", device_id, encode_image_data(v.obj.image_data.b),
                            None, None, v.obj, env.deliver_ok)
    IN  IF ~v.ok THEN ValidationError(v.fields)
        ELSE IF env.deliver_ok
        THEN Outcome(NoException, <<>>, <<"validate", "deliver">>, <<r>>)
        ELSE Outcome(NoException, <<>>, <<"validate", "deliver", "deliver">>, <<r, r>>)

\* ImageView.execute on the dict d of a params object: the image bytes are
\* encoded as they are and handed to the client; an error of the client is
\* printed.
ImageView_execute(device_id, d, env) ==
    LET v == validate(ImageParams, d)
    IN  IF ~v.ok THEN ValidationError(v.fields)
        ELSE Outcome(NoException, <<>>, <<"validate", "deliver">>,
                     <<DisplayRequest("image", device_id,
                                      encode_image_data(v.obj.image_data.b),
                                      None, None, v.obj, env.deliver_ok)>>)

\* The parameters of the image as they would be with a fault: the hints of
\* the view's parameters are left out.
image_params_without_hints(image_data, obj) ==
    [image_data |-> Bytes(image_data), link |-> None, border |-> None,
     dither_type |-> None, dither_kernel |-> None]

\* ImageParams(image_data=..., link=params.link, ...) as the rendering views
\* build it from their own parameters.
image_params(image_data, obj) ==
    [image_data |-> Bytes(image_data), link |-> obj.link, border |-> obj.border,
     dither_type |-> obj.dither_type, dither_kernel |-> obj.dither_kernel]

\* TextView.execute
TextView_execute(device_id, d, env) ==
    LET v == validate(TextParams, d)
    IN  IF ~v.ok THEN ValidationError(v.fields)
        ELSE Outcome(NoException, <<>>, <<"validate", "deliver">>,
                     <<DisplayRequest("text", device_id, <<>>, v.obj.title,
                                      v.obj.message, NoHints, env.deliver_ok)>>)

\* The layouts drawn on a canvas, as the byte that stands for them.
LayoutTitle == 1
LayoutCodeStatus == 2
LayoutUmamiStats == 3
LayoutContributions == 4
LayoutErrorCard == 5

Generated(image) == [ok |-> TRUE, image_data |-> png_bytes(image)]
GenerationFailed == [ok |-> FALSE, image_data |-> <<>>]

\* The canvas as it would be with a fault: another mode and size.
new_canvas_landscape(layout, data) == Canvas("L", 400, 300, layout, data)

\* Image.new('1', (296, 152), 1) with the layout drawn on it.
new_canvas(layout, data) == Canvas("1", 296, 152, layout, data)

\* TitleImageView._generate_title_image: sizes are fitted and the titles
\* wrapped to two thirds of the width; the data byte records the number of
\* lines of each title.  Any exception inside (draw_ok FALSE stands for one
\* raised by the drawing or the PNG encoder) is raised again as Exception.
generate_title_image(files, main_title, sub_title, draw_ok) ==
    LET max_text_width == (296 * 2) \div 3
        available_height == 152 - 20
        has_sub == sub_title.t = "str" /\ sub_title.b # <<>>
        \* lines 158-193 and 205-233: wrap, draw, save
        Draw(main_font, sub_font) ==
            IF ~draw_ok \/ main_font.exc # NoException \/ sub_font.exc # NoException
            THEN GenerationFailed
            ELSE LET main_lines == wrap_text(main_title.b, main_font.font, max_text_width)
                     sub_lines == IF has_sub
                                  THEN wrap_text(sub_title.b, sub_font.font, max_text_width)
                                  ELSE <<>>
                 IN  Generated(new_canvas(LayoutTitle,
                                          (16 * Len(main_lines) + Len(sub_lines)) % 256))
        \* line 156
        SubFont(main_font, u) ==
            Draw(main_font, get_font(main_font.fm, files, u.size, NoName, NoWeight))
        \* lines 155 and 203, with the sizes m and u of the two titles
        MainFont(m, u) == SubFont(get_font(u.fm, files, m.size, NoName, NoWeight), u)
        \* lines 150-152
        SubSize(m) ==
            MainFont(m, IF has_sub
                        THEN calculate_optimal_font_size(
                                 m.fm, files, sub_title.b, max_text_width,
                                 (available_height * 4) \div 10, 32, 16)
                        ELSE m)
    IN  \* lines 147-149 and 198-200
        SubSize(calculate_optimal_font_size(
                    NewFontManager, files, main_title.b, max_text_width,
                    IF has_sub THEN (available_height * 6) \div 10 ELSE available_height,
                    IF has_sub THEN 42 ELSE 48, 16))

\* TitleImageView.execute: a failure to generate the image propagates.
TitleImageView_execute(device_id, d, files, env) ==
    LET v == validate(TitleImageParams, d)
    IN  IF ~v.ok THEN ValidationError(v.fields)
        ELSE LET Send(g) ==
                     IF ~g.ok
                     THEN Outcome("Exception", <<"Error generating title image">>,
                                  <<"validate", "draw">>, <<>>)
                     ELSE After(<<"validate", "draw">>,
                                ImageView_execute(device_id,
                                                  image_params(g.image_data, v.obj), env))
             IN  Send(generate_title_image(files, v.obj.main_title, v.obj.sub_title,
                                           env.draw_ok))

(***************************************************************************)
(* WorkView: the countdown to the end of the working day.                  *)
(***************************************************************************)
DigitValue ==
    [c \in {"0", "1", "2", "3", "4", "5", "6", "7", "8", "9"} |->
        CASE c = "0" -> 0 [] c = "1" -> 1 [] c = "2" -> 2 [] c = "3" -> 3 [] c = "4" -> 4
          [] c = "5" -> 5 [] c = "6" -> 6 [] c = "7" -> 7 [] c = "8" -> 8 [] c = "9" -> 9]
DigitChar == <<"0", "1", "2", "3", "4", "5", "6", "7", "8", "9">>

\* The two digits of c from place i as a number below limit.
TwoDigits(c, i, limit) ==
    /\ c[i] \in DOMAIN DigitValue /\ c[i + 1] \in DOMAIN DigitValue
    /\ 10 * DigitValue[c[i]] + DigitValue[c[i + 1]] < limit
NumberAt(c, i) == 10 * DigitValue[c[i]] + DigitValue[c[i + 1]]

\* time.fromisoformat of a string written "HH:MM" or "HH:MM:SS": the second
\* of the day, or ValueError.
fromisoformat(c) ==
    IF Len(c) = 5 /\ c[3] = ":" /\ TwoDigits(c, 1, 24) /\ TwoDigits(c, 4, 60)
    THEN [ok |-> TRUE, second |-> 3600 * NumberAt(c, 1) + 60 * NumberAt(c, 4)]
    ELSE IF /\ Len(c) = 8 /\ c[3] = ":" /\ c[6] = ":"
            /\ TwoDigits(c, 1, 24) /\ TwoDigits(c, 4, 60) /\ TwoDigits(c, 7, 60)
    THEN [ok |-> TRUE,
          second |-> 3600 * NumberAt(c, 1) + 60 * NumberAt(c, 4) + NumberAt(c, 7)]
    ELSE [ok |-> FALSE, second |-> 0]

\* str(n) of a natural number
RECURSIVE str_int(_)
str_int(n) ==
    IF n < 10 THEN <<DigitChar[n + 1]>> ELSE Append(str_int(n \div 10), DigitChar[(n % 10) + 1])

\* now.strftime("%H:%M")
strftime_HM(now) ==
    LET h == now.second \div 3600
        mi == (now.second % 3600) \div 60
    IN  <<DigitChar[(h \div 10) + 1], DigitChar[(h % 10) + 1], ":",
          DigitChar[(mi \div 10) + 1], DigitChar[(mi % 10) + 1]>>

\* calculate_work_status as it would be with a fault: the seconds left over
\* are dropped instead of rounded up.
calculate_work_status_rounding_down(clock_in, clock_out, now) ==
    LET i == fromisoformat(clock_in)
        o == fromisoformat(clock_out)
        current == 2 * now.second + now.half
        total_seconds == (2 * o.second - current) \div 2
    IN  IF ~i.ok \/ ~o.ok THEN [kind |-> "format_error", hours |-> 0, minutes |-> 0]
        ELSE IF current < 2 * i.second \/ current >= 2 * o.second
        THEN [kind |-> "off_work", hours |-> 0, minutes |-> 0]
        ELSE [kind |-> "countdown", hours |-> total_seconds \div 3600,
              minutes |-> (total_seconds % 3600) \div 60]

\* WorkView.calculate_work_status.  now is the wall clock: the second of the
\* day and whether half a second more has passed.  Times are compared in half
\* seconds; int(time_diff.total_seconds()) drops the half.
calculate_work_status(clock_in, clock_out, now) ==
    LET i == fromisoformat(clock_in)
        o == fromisoformat(clock_out)
        current == 2 * now.second + now.half
    IN  IF ~i.ok \/ ~o.ok THEN [kind |-> "format_error", hours |-> 0, minutes |-> 0]
        ELSE IF current < 2 * i.second \/ current >= 2 * o.second
        THEN [kind |-> "off_work", hours |-> 0, minutes |-> 0]
        ELSE LET total_seconds == (2 * o.second - current) \div 2
                 hours == total_seconds \div 3600
                 remainder == total_seconds % 3600
                 minutes == remainder \div 60
                 seconds == remainder % 60
                 minutes1 == IF seconds > 0 THEN minutes + 1 ELSE minutes
             IN  IF minutes1 = 60
                 THEN [kind |-> "countdown", hours |-> hours + 1, minutes |-> 0]
                 ELSE [kind |-> "countdown", hours |-> hours, minutes |-> minutes1]

\* The message calculate_work_status returns, by character.
work_message(status) ==
    CASE status.kind = "format_error" -> <<"shi", "jian", "ge", "shi", "cuo", "wu">>
      [] status.kind = "off_work" -> <<"yi", "jing", "xia", "ban", "la">>
      [] status.kind = "countdown" ->
            IF status.hours > 0
            THEN <<"ju", "xia", "ban", " ">> \o str_int(status.hours)
                    \o <<" ", "xiao", "shi", " ">> \o str_int(status.minutes)
                    \o <<" ", "fen", "zhong">>
            ELSE <<"ju", "xia", "ban", " ">> \o str_int(status.minutes)
                    \o <<" ", "fen", "zhong">>

\* The TitleImageParams WorkView.execute builds (lines 65-78).
work_title_params(clock_in, clock_out, now) ==
    [main_title |-> Txt(<<"hai", "you", "duo", "jiu", "xia", "ban">>),
     sub_title |-> Txt(work_message(calculate_work_status(clock_in, clock_out, now))
                           \o <<"\n">> \o strftime_HM(now)),
     link |-> None, border |-> None, dither_type |-> Str("NONE"),
     dither_kernel |-> None]

\* WorkView.execute
WorkView_execute(device_id, d, files, env) ==
    LET v == validate(WorkParams, d)
    IN  IF ~v.ok THEN ValidationError(v.fields)
        ELSE After(<<"validate">>,
                   TitleImageView_execute(
                       device_id,
                       work_title_params(v.obj.clock_in.b, v.obj.clock_out.b, env.now),
                       files, env))

(***************************************************************************)
(* The renderers that fetch their data.  A response is what requests       *)
(* meets: net is "ok" or the exception of the transport, status the HTTP   *)
(* status, body the shape of the payload:                                  *)
(*   not_json      the body is not JSON                                    *)
(*   array         a JSON array where an object is expected                *)
(*   error_object  a JSON object that reports an error and carries no      *)
(*                 data (for GitHub: with the key "errors")                *)
(*   bad_field     the expected object with a member of another type       *)
(*                 (a language without name, a metric that is a plain      *)
(*                 number, a user that is null)                            *)
(*   zero          the expected object, all counts zero                    *)
(*   data          the expected object with data                           *)
(***************************************************************************)
Bodies == {"not_json", "array", "error_object", "bad_field", "zero", "data"}

Response(net, status, body) == [net |-> net, status |-> status, body |-> body]

\* requests.RequestException and its subclasses
RequestExceptions == {"ConnectionError", "Timeout", "HTTPError", "JSONDecodeError"}

Fetched(data) == [exc |-> NoException, data |-> data]
FetchRaises(e) == [exc |-> e, data |-> "none"]

\* requests.get(..., timeout=10); response.raise_for_status(); response.json()
http_json(response) ==
    IF response.net # "ok" THEN FetchRaises(response.net)
    ELSE IF response.status >= 400 THEN FetchRaises("HTTPError")
    ELSE IF response.body = "not_json" THEN FetchRaises("JSONDecodeError")
    ELSE Fetched(response.body)

\* self._get_font(size) for each size in turn on manager mgr: TRUE when none
\* raised.
RECURSIVE get_fonts(_, _, _, _)
get_fonts(mgr, files, sizes, font_name) ==
    IF sizes = <<>> THEN TRUE
    ELSE LET Rest(r) == r.exc = NoException /\ get_fonts(r.fm, files, Tail(sizes), font_name)
         IN  Rest(get_font(mgr, files, Head(sizes), font_name, NoWeight))

\* CodeStatusView._fetch_wakatime_data
fetch_wakatime_data(response) == http_json(response)

\* CodeStatusView._generate_status_image: .get on something that is not a
\* dict and lang["name"] on a language without name raise, and every
\* exception inside is raised again as Exception.  The data byte is 0 for
\* the lines "No coding time / tracked today" and 1 for the totals.
generate_status_image(files, wakatime_data, draw_ok) ==
    IF wakatime_data \in {"array", "bad_field"} THEN GenerationFailed
    ELSE IF ~get_fonts(NewFontManager, files, <<22, 16, 14, 12>>, HackBold)
    THEN GenerationFailed
    ELSE IF ~draw_ok THEN GenerationFailed
    ELSE Generated(new_canvas(LayoutCodeStatus, IF wakatime_data = "data" THEN 1 ELSE 0))

\* CodeStatusView.execute
CodeStatusView_execute(device_id, d, files, env) ==
    LET v == validate(CodeStatusParams, d)
    IN  IF ~v.ok THEN ValidationError(v.fields)
        ELSE LET fetched == fetch_wakatime_data(env.response)
                 Send(g) ==
                     IF ~g.ok
                     THEN Outcome(NoException, <<>>, <<"validate", "fetch", "draw">>, <<>>)
                     ELSE After(<<"validate", "fetch", "draw">>,
                                Swallow(ImageView_execute(
                                            device_id, image_params(g.image_data, v.obj),
                                            env)))
             IN  IF fetched.exc # NoException /\ fetched.exc \notin RequestExceptions
                 THEN Outcome(NoException, <<>>, <<"validate", "fetch">>, <<>>)
                 ELSE Send(generate_status_image(
                               files,
                               IF fetched.exc = NoException THEN fetched.data ELSE "zero",
                               env.draw_ok))

\* UmamiStatsView._fetch_umami_stats (_parse_time_range falls back to 24
\* hours and never raises)
fetch_umami_stats(response) == http_json(response)

\* UmamiStatsView._generate_stats_image: stats_data.get(...) on an array and
\* .get("value") on a plain number raise.
generate_stats_image(files, stats_data, draw_ok) ==
    IF stats_data \in {"array", "bad_field"} THEN GenerationFailed
    ELSE IF ~get_fonts(NewFontManager, files, <<18, 14, 20, 12>>, HackBold)
    THEN GenerationFailed
    ELSE IF ~draw_ok THEN GenerationFailed
    ELSE Generated(new_canvas(LayoutUmamiStats, IF stats_data = "data" THEN 1 ELSE 0))

\* UmamiStatsView.execute
UmamiStatsView_execute(device_id, d, files, env) ==
    LET v == validate(UmamiStatsParams, d)
    IN  IF ~v.ok THEN ValidationError(v.fields)
        ELSE LET fetched == fetch_umami_stats(env.response)
                 Send(g) ==
                     IF ~g.ok
                     THEN Outcome(NoException, <<>>, <<"validate", "fetch", "draw">>, <<>>)
                     ELSE After(<<"validate", "fetch", "draw">>,
                                Swallow(ImageView_execute(
                                            device_id, image_params(g.image_data, v.obj),
                                            env)))
             IN  IF fetched.exc # NoException /\ fetched.exc \notin RequestExceptions
                 THEN Outcome(NoException, <<>>, <<"validate", "fetch">>, <<>>)
                 ELSE Send(generate_stats_image(
                               files,
                               IF fetched.exc = NoException THEN fetched.data ELSE "zero",
                               env.draw_ok))

\* GitHubContributionsView._fetch_github_data: a payload with "errors" raises
\* a plain Exception (lines 83-84); data["data"] on an array is a TypeError;
\* a null user is returned as it is.
fetch_github_data(response) ==
    LET r == http_json(response)
    IN  IF r.exc # NoException THEN r
        ELSE IF r.data = "error_object" THEN FetchRaises("Exception")
        ELSE IF r.data = "array" THEN FetchRaises("TypeError")
        ELSE r

\* GitHubContributionsView._generate_github_image: github_data.get on a null
\* user raises.  The data byte is 1 when there are contributions to draw.
generate_github_image(files, github_data, draw_ok) ==
    IF github_data = "bad_field" THEN GenerationFailed
    ELSE IF ~get_fonts(NewFontManager, files, <<16, 12>>, HackBold) THEN GenerationFailed
    ELSE IF ~draw_ok THEN GenerationFailed
    ELSE Generated(new_canvas(LayoutContributions, IF github_data = "data" THEN 1 ELSE 0))

\* GitHubContributionsView._generate_error_image: "GitHub API Error"
generate_error_image(files, draw_ok) ==
    IF ~get_fonts(NewFontManager, files, <<16, 12, 10>>, HackBold) THEN GenerationFailed
    ELSE IF ~draw_ok THEN GenerationFailed
    ELSE Generated(new_canvas(LayoutErrorCard, 0))

\* GitHubContributionsView.execute without its last handler: a variant in
\* which an exception that is not a RequestException leaves execute.
GitHubContributionsView_execute_unguarded(device_id, d, files, env) ==
    LET v == validate(GitHubContributionsParams, d)
    IN  IF ~v.ok THEN ValidationError(v.fields)
        ELSE LET fetched == fetch_github_data(env.response)
                 Send(g) ==
                     IF ~g.ok
                     THEN Outcome(IF fetched.exc = NoException THEN "Exception"
                                  ELSE NoException,
                                  <<>>, <<"validate", "fetch", "draw">>, <<>>)
                     ELSE After(<<"validate", "fetch", "draw">>,
                                ImageView_execute(
                                    device_id, image_params(g.image_data, v.obj), env))
             IN  IF fetched.exc # NoException /\ fetched.exc \notin RequestExceptions
                 THEN Outcome(fetched.exc, <<>>, <<"validate", "fetch">>, <<>>)
                 ELSE Send(IF fetched.exc = NoException
                           THEN generate_github_image(files, fetched.data, env.draw_ok)
                           ELSE generate_error_image(files, env.draw_ok))

\* GitHubContributionsView.execute: a RequestException of the fetch is
\* answered with the error card, any other exception is printed.
GitHubContributionsView_execute(device_id, d, files, env) ==
    LET v == validate(GitHubContributionsParams, d)
    IN  IF ~v.ok THEN ValidationError(v.fields)
        ELSE LET fetched == fetch_github_data(env.response)
                 Send(g) ==
                     IF ~g.ok
                     THEN Outcome(NoException, <<>>, <<"validate", "fetch", "draw">>, <<>>)
                     ELSE After(<<"validate", "fetch", "draw">>,
                                Swallow(ImageView_execute(
                                            device_id, image_params(g.image_data, v.obj),
                                            env)))
             IN  IF fetched.exc # NoException /\ fetched.exc \notin RequestExceptions
                 THEN Outcome(NoException, <<>>, <<"validate", "fetch">>, <<>>)
                 ELSE Send(IF fetched.exc = NoException
                           THEN generate_github_image(files, fetched.data, env.draw_ok)
                           ELSE generate_error_image(files, env.draw_ok))

(***************************************************************************)
(* ViewFactory                                                             *)
(***************************************************************************)
\* _view_registry as the class defines it
BuiltinViews ==
    [work |-> "WorkView", text |-> "TextView", code_status |-> "CodeStatusView",
     image |-> "ImageView", title_image |-> "TitleImageView",
     umami_stats |-> "UmamiStatsView", github_contributions |-> "GitHubContributionsView"]

ViewClasses == {BuiltinViews[k] : k \in DOMAIN BuiltinViews}

DeviceId == "device-1"

UnknownViewType(view_type) ==
    Outcome("ValueError", <<"Unknown view type: ", view_type>>, <<>>, <<>>)

\* create_view that takes a name it does not know for the text view: a
\* variant that lets a request for an unknown view through.
create_view_defaults_to_text(registry, view_type) ==
    IF view_type \notin DOMAIN registry
    THEN [Outcome(NoException, <<>>, <<>>, <<>>) EXCEPT !.result = "TextView"]
    ELSE [Outcome(NoException, <<>>, <<>>, <<>>) EXCEPT !.result = registry[view_type]]

\* ViewFactory.create_view: the class instantiated, or ValueError.
create_view(registry, view_type) ==
    IF view_type \notin DOMAIN registry
    THEN UnknownViewType(view_type)
    ELSE [Outcome(NoException, <<>>, <<>>, <<>>) EXCEPT !.result = registry[view_type]]

\* The name of the class params_class gives.
params_class_name(view_class) ==
    CASE view_class = "WorkView" -> "WorkParams"
      [] view_class = "TextView" -> "TextParams"
      [] view_class = "CodeStatusView" -> "CodeStatusParams"
      [] view_class = "ImageView" -> "ImageParams"
      [] view_class = "TitleImageView" -> "TitleImageParams"
      [] view_class = "UmamiStatsView" -> "UmamiStatsParams"
      [] view_class = "GitHubContributionsView" -> "GitHubContributionsParams"

\* ViewFactory.get_params_class
get_params_class(registry, view_type) ==
    IF view_type \notin DOMAIN registry
    THEN UnknownViewType(view_type)
    ELSE [Outcome(NoException, <<>>, <<>>, <<>>)
             EXCEPT !.result = params_class_name(registry[view_type])]

\* register_view as it would be with a fault: the registry is replaced by
\* the one registration.
register_view_replacing_all(registry, view_type, view_class) ==
    [k \in {view_type} |-> view_class]

\* ViewFactory.register_view
register_view(registry, view_type, view_class) ==
    [k \in DOMAIN registry \cup {view_type} |->
        IF k = view_type THEN view_class ELSE registry[k]]

\* ViewFactory.get_available_types
get_available_types(registry) == DOMAIN registry

\* view.execute(params) of an instance of view_class; d is
\* params.model_dump().
view_execute(view_class, device_id, d, files, env) ==
    CASE view_class = "WorkView" -> WorkView_execute(device_id, d, files, env)
      [] view_class = "TextView" -> TextView_execute(device_id, d, env)
      [] view_class = "CodeStatusView" -> CodeStatusView_execute(device_id, d, files, env)
      [] view_class = "ImageView" -> ImageView_execute(device_id, d, env)
      [] view_class = "TitleImageView" -> TitleImageView_execute(device_id, d, files, env)
      [] view_class = "UmamiStatsView" -> UmamiStatsView_execute(device_id, d, files, env)
      [] view_class = "GitHubContributionsView" ->
            GitHubContributionsView_execute(device_id, d, files, env)

\* BaseView.create_params_from_dict
create_params_from_dict(view_class, params_dict) ==
    validate(params_class(view_class), params_dict)

\* ViewFactory.execute_view.  params is a dict (is_dict) or already a
\* params object, given by its fields.
execute_view(registry, view_type, device_id, params, is_dict, files, env) ==
    LET view == create_view(registry, view_type)
        \* lines 50-53: a dict is validated first
        v == create_params_from_dict(view.result, params)
        \* line 56
        Execute(d) == view_execute(view.result, device_id, d, files, env)
    IN  IF view.exc # NoException THEN view
        ELSE IF is_dict /\ ~v.ok THEN ValidationError(v.fields)
        ELSE After(IF is_dict THEN <<"validate">> ELSE <<>>,
                   Execute(IF is_dict THEN v.obj ELSE params))

(***************************************************************************)
(* SpecWrap: _wrap_text applied to every bounded text, font and width.     *)
(***************************************************************************)
Texts == SeqsUpTo(Chars, MaxTextLen)
WrapFonts ==
    {TrueTypeFont(Path("resource", BestFontFile), 10),
     TrueTypeFont(Path("resource", BestFontFile), 16),
     DefaultFont}
WrapWidths == {0, 7, 12, 20}

InitWrap ==
    /\ pc = "start"
    /\ text \in Texts
    /\ font \in WrapFonts
    /\ max_width \in WrapWidths
    /\ lines = <<>>
    /\ fs = Unused
    /\ fm = Unused /\ call = Unused /\ ret = Unused /\ calls_left = 0
    /\ fit = Unused
    /\ view_registry = Unused /\ request = Unused /\ outcome = Unused

WrapText ==
    /\ pc = "start"
    /\ lines' = wrap_text(text, font, max_width)
    /\ pc' = "done"
    /\ UNCHANGED <<text, font, max_width, fs, fontVars, fit, factoryVars>>

NextWrap == WrapText

SpecWrap == InitWrap /\ [][NextWrap]_vars

\* The words of the returned lines, read in order across the lines.
RECURSIVE WordsOfLines(_)
WordsOfLines(ls) ==
    IF ls = <<>> THEN <<>> ELSE split(Head(ls)) \o WordsOfLines(Tail(ls))

\* C2: the words of the lines returned by _wrap_text, read in order, are
\* exactly the whitespace-separated words of the text (none dropped,
\* duplicated or reordered), and a word wider than max_width is a line of its
\* own, unsplit.
C2_WrapKeepsWords ==
    pc = "done" =>
        /\ WordsOfLines(lines) = split(text)
        /\ \A k \in DOMAIN lines :
              \A j \in DOMAIN split(lines[k]) :
                  textbbox_width(split(lines[k])[j], font) > max_width
                      => lines[k] = split(lines[k])[j]

\* Witness of C2: a text of three words or more whose wrap has an over-wide
\* word on a line of its own between other lines.
C2_Witness ==
    /\ pc = "done"
    /\ Len(split(text)) >= 3
    /\ Len(lines) >= 2
    /\ \E k \in DOMAIN lines :
          /\ k > 1
          /\ textbbox_width(lines[k], font) > max_width
          /\ Len(split(lines[k])) = 1
    /\ \E k \in DOMAIN lines : Len(split(lines[k])) >= 2

\* C3: every returned line measures at most max_width, except a line that is
\* a single word wider than max_width.
C3_WrapLineWidth ==
    pc = "done" =>
        \A k \in DOMAIN lines :
            \/ textbbox_width(lines[k], font) <= max_width
            \/ /\ Len(split(lines[k])) = 1
               /\ textbbox_width(split(lines[k])[1], font) > max_width

\* Witness of C3: a wrap with a line of several words within max_width and a
\* line that is one over-wide word.
C3_Witness ==
    /\ pc = "done"
    /\ \E k \in DOMAIN lines :
          /\ Len(split(lines[k])) >= 2
          /\ textbbox_width(lines[k], font) <= max_width
    /\ \E k \in DOMAIN lines :
          /\ Len(split(lines[k])) = 1
          /\ textbbox_width(lines[k], font) > max_width

(***************************************************************************)
(* SpecFont: calls on one FontManager.  Every machine of FontEnvs gets one *)
(* call on a fresh manager; the machines of CacheEnvs get MaxCalls calls.  *)
(***************************************************************************)
ResourceListings ==
    {<<>>, <<BestFontFile>>, <<HackBoldTtf>>, <<HackBoldTtf, BestFontFile>>}

SystemListings ==
    {<<>>,
     <<ReadmeTxt, NotoTtc, PingFangTtc, SongtiTtc, KaitiTtf, WqyTtc,
       ArialTtf, HelveticaTtc, DejaVuTtf>>}

Range(s) == {s[i] : i \in DOMAIN s}

\* Every path truetype may be asked for on a machine with these listings.
KnownPaths(resource, system) ==
    {Path("resource", n) : n \in Range(resource)}
        \cup {Path("system", n) : n \in Range(system)}
        \cup {Path("", n) : n \in Range(common_fonts)}

\* Which of them load: none, one, all but one, all.
LoadableSets(paths) ==
    {{}, paths} \cup {{p} : p \in paths} \cup {paths \ {p} : p \in paths}

\* The variable fonts: the bundled SourceHanSansSC-VF.
VariableOf(paths) == {p \in paths : p.name = BestFontFile}

MakeFs(resource, system, loadable) ==
    [resource |-> resource, system |-> system,
     loadable |-> {p \in loadable : IsFontFile(p.name)},
     variable |-> VariableOf(loadable)]

FontEnvs ==
    UNION {{MakeFs(rs[1], rs[2], l) : l \in LoadableSets(KnownPaths(rs[1], rs[2]))} :
              rs \in ResourceListings \X SystemListings}

\* Machines for the calls that follow one another: every font present and
\* loadable, fonts present but none loadable, no font file at all.
FullListing == <<HackBoldTtf, BestFontFile>>
FullSystem == CHOOSE sy \in SystemListings : sy # <<>>

CacheEnvs ==
    {MakeFs(FullListing, FullSystem, KnownPaths(FullListing, FullSystem)),
     MakeFs(FullListing, FullSystem, {}),
     MakeFs(<<>>, <<>>, {})}

\* Bound: calls made on one manager of CacheEnvs.
MaxCalls == 3

FontSizes == {12, 16}
\* The names asked for: none, the two names the views use, a part of a file
\* name in another case, a full file name, and a name no file matches.
HackUpper == <<"H", "A", "C", "K">>
Roboto == <<"R", "o", "b", "o", "t", "o">>
FontNames == {NoName, HackBold, SourceHanSansVF, HackUpper, HackBoldTtf, Roboto}
\* The names the views ask for, which the calls on a manager that has
\* searched are made with.
ViewFontNames == {NoName, HackBold, SourceHanSansVF}
FontWeights == {NoWeight, 600}

\* A call on the manager: the operation, its arguments and, for get_font,
\* whether the key of the call was in the cache when the call was made.
NoCall ==
    [op |-> "none", size |-> 0, font_name |-> NoName, font_weight |-> NoWeight,
     cached |-> FALSE]
NoReturn == [font |-> NullFont, exc |-> NoException]

InitFont ==
    /\ pc = "start"
    /\ \/ fs \in FontEnvs /\ calls_left = 1
       \/ fs \in CacheEnvs /\ calls_left = MaxCalls
    /\ fm = NewFontManager
    /\ call = NoCall
    /\ ret = NoReturn
    /\ text = Unused /\ font = Unused /\ max_width = Unused /\ lines = Unused
    /\ fit = Unused
    /\ view_registry = Unused /\ request = Unused /\ outcome = Unused

GetFont(size, font_name, font_weight) ==
    /\ calls_left > 0
    /\ LET r == get_font(fm, fs, size, font_name, font_weight)
       IN  /\ fm' = r.fm
           /\ ret' = [font |-> r.font, exc |-> r.exc]
    /\ call' = [op |-> "get_font", size |-> size, font_name |-> font_name,
                font_weight |-> font_weight,
                cached |-> <<size, font_name, font_weight>> \in DOMAIN fm.font_cache]
    /\ calls_left' = calls_left - 1
    /\ UNCHANGED <<pc, fs, wrapVars, fit, factoryVars>>

GetAvailableFonts ==
    /\ calls_left > 0
    /\ fm' = get_available_fonts(fm, fs)
    /\ call' = [NoCall EXCEPT !.op = "get_available_fonts"]
    /\ ret' = NoReturn
    /\ calls_left' = calls_left - 1
    /\ UNCHANGED <<pc, fs, wrapVars, fit, factoryVars>>

ClearCache ==
    /\ calls_left > 0
    /\ fm' = clear_cache(fm)
    /\ call' = [NoCall EXCEPT !.op = "clear_cache"]
    /\ ret' = NoReturn
    /\ calls_left' = calls_left - 1
    /\ UNCHANGED <<pc, fs, wrapVars, fit, factoryVars>>

NextFont ==
    \/ \E size \in FontSizes, font_weight \in FontWeights,
          font_name \in IF fm.system_fonts.discovered THEN ViewFontNames ELSE FontNames :
           GetFont(size, font_name, font_weight)
    \/ GetAvailableFonts
    \/ ClearCache

SpecFont == InitFont /\ [][NextFont]_vars

\* The font files _load_best_font tries on this machine, by the catalog the
\* manager holds.
BestCandidatePaths ==
    (IF resource_exists(fs, BestFontFile) THEN {Path("resource", BestFontFile)} ELSE {})
        \cup Range(fm.system_fonts.priority)
        \cup {fm.system_fonts.chinese[i] : i \in DOMAIN fm.system_fonts.chinese \cap 1..3}
        \cup {fm.system_fonts.english[i] : i \in DOMAIN fm.system_fonts.english \cap 1..2}
        \cup {Path("", n) : n \in Range(common_fonts)}

\* C1: a get_font call with size > 0 and no font name returns a font and
\* raises nothing, and when none of the candidate files loads the font is the
\* built-in default font.
C1_GetFontNeverRaises ==
    (call.op = "get_font" /\ call.size > 0 /\ call.font_name = NoName) =>
        /\ ret.exc = NoException
        /\ ret.font # NullFont
        /\ ret.font.kind \in {"FreeTypeFont", "ImageFont"}
        /\ (BestCandidatePaths \cap fs.loadable = {}) => ret.font = DefaultFont

\* Witness of C1: font files are present, none of the candidates loads, and
\* the call returned the built-in font.
C1_Witness ==
    /\ call.op = "get_font" /\ call.font_name = NoName
    /\ fs.resource # <<>> /\ fs.system # <<>>
    /\ fm.system_fonts.priority # <<>>
    /\ BestCandidatePaths \cap fs.loadable = {}
    /\ ret.font = DefaultFont

(***************************************************************************)
(* SpecFit: _calculate_optimal_font_size on a title view's font manager,   *)
(* then once more for a box at least as wide and as high.                  *)
(***************************************************************************)
\* Bounds: the longest text and the range of font sizes of the search.
MaxFitTextLen == 2
MinFitSize == 14
MaxFitSize == 16

FitTexts == SeqsUpTo(Chars, MaxFitTextLen)
FitSizes == MinFitSize..MaxFitSize
FitWidths == {11, 24, 200}
FitHeights == {14, 33, 100}

\* Machines: the bundled font loads; no font file loads.
FitEnvs ==
    {MakeFs(FullListing, FullSystem, KnownPaths(FullListing, FullSystem)),
     MakeFs(FullListing, FullSystem, {})}

NoFit == 0

InitFit ==
    /\ pc = "start"
    /\ text \in FitTexts
    /\ max_width \in FitWidths
    /\ fit \in [max_height : FitHeights, initial_size : FitSizes, min_size : FitSizes,
                size : {NoFit}, wider_width : {NoFit}, wider_height : {NoFit},
                wider_size : {NoFit}]
    /\ fs \in FitEnvs
    /\ fm = NewFontManager
    /\ font = Unused /\ lines = Unused
    /\ call = Unused /\ ret = Unused /\ calls_left = 0
    /\ view_registry = Unused /\ request = Unused /\ outcome = Unused

CalculateOptimalFontSize ==
    /\ pc = "start"
    /\ LET r == calculate_optimal_font_size(fm, fs, text, max_width, fit.max_height,
                                            fit.initial_size, fit.min_size)
       IN  /\ fm' = r.fm
           /\ fit' = [fit EXCEPT !.size = r.size]
    /\ pc' = "fitted"
    /\ UNCHANGED <<wrapVars, fs, call, ret, calls_left, factoryVars>>

CalculateForWiderBox(w, h) ==
    /\ pc = "fitted"
    /\ w >= max_width /\ h >= fit.max_height
    /\ LET r == calculate_optimal_font_size(fm, fs, text, w, h,
                                            fit.initial_size, fit.min_size)
       IN  /\ fm' = r.fm
           /\ fit' = [fit EXCEPT !.wider_width = w, !.wider_height = h,
                                 !.wider_size = r.size]
    /\ pc' = "refitted"
    /\ UNCHANGED <<wrapVars, fs, call, ret, calls_left, factoryVars>>

NextFit ==
    \/ CalculateOptimalFontSize
    \/ \E w \in FitWidths, h \in FitHeights : CalculateForWiderBox(w, h)

SpecFit == InitFit /\ [][NextFit]_vars

\* The text as measured at font size s on this machine fits the box.
FitsAt(s, w, h) ==
    LET f == get_font(NewFontManager, fs, s, NoName, NoWeight).font
        m == measured(text, f, s)
    IN  m.width <= w /\ m.height <= h

\* C4: for min_size <= initial_size the size returned is the largest size in
\* [min_size, initial_size] at which the measured text fits max_width and
\* max_height, and min_size when no size of the range fits; it is always
\* within [min_size, initial_size].
C4_FitLargestSize ==
    (pc = "fitted" /\ fit.min_size <= fit.initial_size) =>
        LET range == fit.min_size..fit.initial_size
            fitting == {s \in range : FitsAt(s, max_width, fit.max_height)}
        IN  /\ fit.size \in range
            /\ fitting # {} => /\ fit.size \in fitting
                               /\ \A s \in fitting : s <= fit.size
            /\ fitting = {} => fit.size = fit.min_size

\* Witness of C4: the search passed over sizes that do not fit and returned
\* a size strictly between min_size and initial_size.
C4_Witness ==
    /\ pc = "fitted"
    /\ fit.min_size < fit.size /\ fit.size < fit.initial_size
    /\ ~FitsAt(fit.initial_size, max_width, fit.max_height)
    /\ FitsAt(fit.size, max_width, fit.max_height)

\* Witness of C4, second case: no size of the range fits and min_size is
\* returned.
C4_WitnessNoFit ==
    /\ pc = "fitted"
    /\ fit.min_size < fit.initial_size
    /\ \A s \in fit.min_size..fit.initial_size : ~FitsAt(s, max_width, fit.max_height)
    /\ fit.size = fit.min_size

\* C5: for the same text, initial_size and min_size, a box at least as wide
\* and as high never yields a smaller size.
C5_FitMonotonic ==
    pc = "refitted" =>
        (fit.wider_width >= max_width /\ fit.wider_height >= fit.max_height
             => fit.wider_size >= fit.size)

\* Witness of C5: a strictly larger box that yields a strictly larger size.
C5_Witness ==
    /\ pc = "refitted"
    /\ fit.wider_width > max_width /\ fit.wider_height > fit.max_height
    /\ fit.wider_size > fit.size

(***************************************************************************)
(* Spec: one call on the ViewFactory, after any number of registrations.   *)
(* A view and its font manager are created for the call and dropped after  *)
(* it, so that between calls only the registry is kept.                    *)
(***************************************************************************)
\* Image files a caller may pass through: a 1-bit 296 x 152 PNG, an 8-bit
\* grey one, a smaller 1-bit one, and bytes that are no image.
ValidPng == png_bytes(Canvas("1", 296, 152, 0, 7))
GreyPng == png_bytes(Canvas("L", 296, 152, 0, 7))
SmallPng == png_bytes(Canvas("1", 200, 100, 0, 7))
NotAPng == <<1, 2, 3>>

HintsGiven ==
    [link |-> Str("https://example.com"), border |-> IntVal(1),
     dither_type |-> Str("ORDERED"), dither_kernel |-> Str("ATKINSON")]

ShortTitle == <<"m", "i">>
LongTitle ==
    <<"m", "m", "m", "m", "m", "m", "m", "m", "m", "m", " ",
      "m", "m", "m", "m", "m", "m", "m", "m", "m", "m">>

\* A dict of parameters the view class accepts.
ValidParams(view_class) ==
    CASE view_class = "WorkView" ->
            [clock_in |-> Txt(<<"0", "9", ":", "0", "0">>),
             clock_out |-> Txt(<<"1", "8", ":", "0", "0">>)]
      [] view_class = "TextView" -> [message |-> Str("hello")]
      [] view_class = "CodeStatusView" ->
            [wakatime_url |-> Str("https://wakatime.com/api/v1"),
             wakatime_api_key |-> Str("key"), wakatime_user_id |-> Str("current")]
      [] view_class = "ImageView" -> [image_data |-> Bytes(ValidPng)]
      [] view_class = "TitleImageView" -> [main_title |-> Txt(ShortTitle)]
      [] view_class = "UmamiStatsView" ->
            [umami_host |-> Str("https://umami.example"),
             umami_website_id |-> Str("site"), umami_api_key |-> Str("key")]
      [] view_class = "GitHubContributionsView" ->
            [github_username |-> Str("octocat"), github_token |-> Str("token")]

Without(d, f) == [k \in DOMAIN d \ {f} |-> d[k]]
With(d, f, v) == [k \in DOMAIN d \cup {f} |-> IF k = f THEN v ELSE d[k]]

\* The dicts a caller passes for a view class: valid ones, with and without
\* hints, each required field missing, a field of a wrong type, a hint
\* outside its Literal.
ParamDicts(view_class) ==
    LET ok == ValidParams(view_class)
        takes_hints == "dither_type" \in DOMAIN params_class(view_class)
    IN  {ok}
        \cup {Without(ok, f) : f \in DOMAIN ok}
        \cup {With(ok, CHOOSE f \in DOMAIN ok : TRUE, AList)}
        \cup (IF takes_hints
              THEN {ok @@ HintsGiven, With(ok, "dither_type", Str("BLUE")),
                    With(ok, "border", Str("wide"))}
              ELSE {})
        \cup (CASE view_class = "ImageView" ->
                      {[image_data |-> Bytes(b)] : b \in {GreyPng, SmallPng, NotAPng}}
                      \cup {[image_data |-> Bytes(GreyPng)] @@ HintsGiven}
                [] view_class = "TitleImageView" ->
                      {[main_title |-> Txt(LongTitle)],
                       [main_title |-> Txt(ShortTitle), sub_title |-> Txt(LongTitle)],
                       [main_title |-> Txt(ShortTitle), sub_title |-> Txt(<<>>)]}
                [] view_class = "WorkView" ->
                      {With(ok, "clock_in", Txt(<<"9", "a", "m">>))}
                [] view_class = "TextView" -> {With(ok, "title", Str("note"))}
                [] OTHER -> {})

\* Params objects a caller passes instead of a dict: of the view's own class
\* or of another.
ParamObjects(view_class) ==
    {validate(params_class(c), ValidParams(c)).obj :
        c \in {view_class, "TextView"}}

Responses ==
    {Response("ConnectionError", 0, "not_json"), Response("Timeout", 0, "not_json"),
     Response("ok", 401, "error_object"), Response("ok", 500, "not_json")}
        \cup {Response("ok", 200, b) : b \in Bodies}

Noon == [second |-> 12 * 3600, half |-> 0]
Nows ==
    {[second |-> 8 * 3600, half |-> 0], [second |-> 16 * 3600 + 1, half |-> 0],
     [second |-> 17 * 3600 + 59 * 60 + 59, half |-> 1], [second |-> 18 * 3600, half |-> 0]}

FetchBased == {"CodeStatusView", "UmamiStatsView", "GitHubContributionsView"}

\* What a call meets outside the program: the answer of the data API, whether
\* the device API accepts the delivery, whether drawing and encoding succeed,
\* the wall clock.  Only what the view class consults varies.
Envs(view_class) ==
    {[response |-> r, deliver_ok |-> a, draw_ok |-> g, now |-> n] :
        r \in (IF view_class \in FetchBased THEN Responses
               ELSE {Response("ok", 200, "data")}),
        a \in BOOLEAN,
        g \in (IF view_class \in {"TextView", "ImageView"} THEN {TRUE} ELSE BOOLEAN),
        n \in (IF view_class = "WorkView" THEN Nows ELSE {Noon})}

ViewTypes == DOMAIN BuiltinViews \cup {"custom", "unknown"}

FactoryMachines ==
    {MakeFs(FullListing, FullSystem, KnownPaths(FullListing, FullSystem)),
     MakeFs(FullListing, FullSystem, {})}

\* The registrations a program makes: a new view type, a built-in one
\* replaced.
Registrations == {<<"custom", "TextView">>, <<"text", "ImageView">>}

NoParams == [none |-> None]
NoRequest ==
    [op |-> "none", view_type |-> "none", view_class |-> "none", params |-> NoParams,
     is_dict |-> TRUE, env |-> CHOOSE e \in Envs("TextView") : e.deliver_ok]
NoOutcome == Outcome(NoException, <<>>, <<>>, <<>>)

Init ==
    /\ pc = "idle"
    /\ view_registry = BuiltinViews
    /\ fs \in FactoryMachines
    /\ request = NoRequest
    /\ outcome = NoOutcome
    /\ text = Unused /\ font = Unused /\ max_width = Unused /\ lines = Unused
    /\ fm = Unused /\ call = Unused /\ ret = Unused /\ calls_left = 0
    /\ fit = Unused

ClassOf(view_type) ==
    IF view_type \in DOMAIN view_registry THEN view_registry[view_type] ELSE "none"

\* ViewFactory.register_view(view_type, view_class)
RegisterView(view_type, view_class) ==
    /\ pc = "idle"
    /\ view_registry' = register_view(view_registry, view_type, view_class)
    /\ UNCHANGED <<pc, wrapVars, fs, fontVars, fit, request, outcome>>

\* ViewFactory.execute_view(view_type, client, device_id, params)
ExecuteView(view_type, params, is_dict, env) ==
    /\ pc = "idle"
    /\ request' = [op |-> "execute_view", view_type |-> view_type,
                   view_class |-> ClassOf(view_type), params |-> params,
                   is_dict |-> is_dict, env |-> env]
    /\ outcome' = execute_view(view_registry, view_type, DeviceId, params, is_dict, fs, env)
    /\ pc' = "done"
    /\ UNCHANGED <<wrapVars, fs, fontVars, fit, view_registry>>

\* ViewFactory.create_view(view_type, client, device_id)
CreateView(view_type) ==
    /\ pc = "idle"
    /\ request' = [NoRequest EXCEPT !.op = "create_view", !.view_type = view_type,
                                    !.view_class = ClassOf(view_type)]
    /\ outcome' = create_view(view_registry, view_type)
    /\ pc' = "done"
    /\ UNCHANGED <<wrapVars, fs, fontVars, fit, view_registry>>

\* ViewFactory.get_params_class(view_type)
GetParamsClass(view_type) ==
    /\ pc = "idle"
    /\ request' = [NoRequest EXCEPT !.op = "get_params_class", !.view_type = view_type,
                                    !.view_class = ClassOf(view_type)]
    /\ outcome' = get_params_class(view_registry, view_type)
    /\ pc' = "done"
    /\ UNCHANGED <<wrapVars, fs, fontVars, fit, view_registry>>

\* Calls made by a caller that has not made its call on the factory yet.
Next ==
    /\ pc = "idle"
    /\ \/ \E r \in Registrations : RegisterView(r[1], r[2])
       \/ \E t \in ViewTypes :
             LET c == IF ClassOf(t) = "none" THEN "TextView" ELSE ClassOf(t)
             IN  \E e \in Envs(c), is_dict \in BOOLEAN :
                    \E p \in IF is_dict THEN ParamDicts(c) ELSE ParamObjects(c) :
                       ExecuteView(t, p, is_dict, e)
       \/ \E t \in ViewTypes : CreateView(t)
       \/ \E t \in ViewTypes : GetParamsClass(t)

Spec == Init /\ [][Next]_vars

Called(op) == pc = "done" /\ request.op = op

\* The calls an outcome made, as a set.
Effects == Range(outcome.effects)

\* The image a receiver decodes from a request handed to the client.
Decoded(r) == png_decode(b64decode(r.image))

\* C7: execute_view, create_view and get_params_class called with a name that
\* is not in the registry raise ValueError whose message names the unknown
\* view type, and nothing is validated, fetched, drawn or delivered for the
\* request.
C7_UnknownViewRejected ==
    (/\ pc = "done"
     /\ request.op \in {"execute_view", "create_view", "get_params_class"}
     /\ request.view_type \notin DOMAIN view_registry)
        => /\ outcome.exc = "ValueError"
           /\ outcome.msg = <<"Unknown view type: ", request.view_type>>
           /\ outcome.effects = <<>>
           /\ outcome.sent = <<>>

\* execute_view of an unknown name with parameters and surroundings under
\* which a registered text view would have delivered.
C7_Witness ==
    /\ Called("execute_view")
    /\ request.view_type = "unknown"
    /\ request.params = ValidParams("TextView")
    /\ request.env.deliver_ok
    /\ outcome.exc = "ValueError"

\* C8: execute_view given parameters that violate the schema of the view (a
\* required field missing, a field of a wrong type) raises a validation
\* error that reports the fields, before any fetch, drawing or delivery: no
\* request reaches the client.
C8_InvalidParamsRejected ==
    (/\ Called("execute_view")
     /\ request.view_type \in DOMAIN view_registry
     /\ Violations(params_class(request.view_class), request.params) # {})
        => /\ outcome.exc = "ValidationError"
           /\ outcome.fields # {}
           /\ Effects \cap {"fetch", "draw", "deliver"} = {}
           /\ outcome.sent = <<>>

\* code_status without its API key, with an API that would have answered
\* with data and a device that would have accepted the image.
C8_Witness ==
    /\ Called("execute_view")
    /\ request.view_class = "CodeStatusView"
    /\ request.params = Without(ValidParams("CodeStatusView"), "wakatime_api_key")
    /\ request.env.response = Response("ok", 200, "data")
    /\ request.env.deliver_ok /\ request.env.draw_ok
    /\ outcome.exc = "ValidationError"
    /\ outcome.fields = {"wakatime_api_key"}

\* C9: with valid parameters, execute of code_status, umami_stats and
\* github_contributions returns normally whatever the fetch meets
\* (connection error, timeout, HTTP error status, malformed or error-bearing
\* body): no exception reaches the caller.
C9_FetchRenderersNeverRaise ==
    (/\ Called("execute_view")
     /\ request.view_class \in FetchBased
     /\ Violations(params_class(request.view_class), request.params) = {})
        => outcome.exc = NoException

\* github_contributions answered with a GraphQL error payload: the fetch
\* was made and raised, and execute returned.
C9_Witness ==
    /\ Called("execute_view")
    /\ request.view_class = "GitHubContributionsView"
    /\ request.params = ValidParams("GitHubContributionsView")
    /\ request.env.response = Response("ok", 200, "error_object")
    /\ outcome.effects = <<"validate", "validate", "fetch">>
    /\ outcome.exc = NoException

Is1Bit296x152(image) == image.mode = "1" /\ image.width = 296 /\ image.height = 152

\* C6 as stated: every image payload handed to the delivery client by any
\* scenario, the raw image passthrough included, decodes to a 1-bit image
\* of exactly 296 x 152 pixels.
C6_EveryPayloadIs1Bit296x152 ==
    Called("execute_view") =>
        \A i \in DOMAIN outcome.sent :
            outcome.sent[i].kind = "image" => Is1Bit296x152(Decoded(outcome.sent[i]))

\* C6: every image payload handed to the delivery client by a scenario that
\* renders locally (work, title_image, code_status, umami_stats,
\* github_contributions), degraded and error renders included, decodes to a
\* 1-bit image of exactly 296 x 152 pixels; the raw image passthrough hands
\* on the bytes it was given, unchanged, whatever they encode.
C6_RenderedPayloadsAre1Bit296x152 ==
    Called("execute_view") =>
        \A i \in DOMAIN outcome.sent :
            outcome.sent[i].kind = "image" =>
                IF request.view_class = "ImageView"
                THEN b64decode(outcome.sent[i].image) = request.params.image_data.b
                ELSE Is1Bit296x152(Decoded(outcome.sent[i]))

\* An error render handed to the client: the error card of
\* github_contributions after a connection error.
C6_Witness ==
    /\ Called("execute_view")
    /\ request.view_class = "GitHubContributionsView"
    /\ request.env.response.net = "ConnectionError"
    /\ Len(outcome.sent) = 1
    /\ Decoded(outcome.sent[1]) = new_canvas(LayoutErrorCard, 0)

\* What C10 counts as an external data error: the network fails, the API
\* refuses the credentials or fails, the body is malformed, the body is an
\* error payload.
ExternalDataError(response) ==
    \/ response.net # "ok"
    \/ response.status >= 400
    \/ response.body \in {"not_json", "array", "bad_field", "error_object"}

\* The degraded image of a fetch-based renderer: the zero-data variant of
\* its layout, the error card for github_contributions.
DegradedImage(view_class) ==
    CASE view_class = "CodeStatusView" -> new_canvas(LayoutCodeStatus, 0)
      [] view_class = "UmamiStatsView" -> new_canvas(LayoutUmamiStats, 0)
      [] view_class = "GitHubContributionsView" -> new_canvas(LayoutErrorCard, 0)

\* C10 as stated: for every kind of external data error (network failure,
\* bad credentials, malformed response, error payload) a fetch-based
\* renderer whose drawing works hands exactly one image to the client, the
\* zero-data variant for code_status and umami_stats and the error card for
\* github_contributions.
C10_EveryDataErrorDegrades ==
    (/\ Called("execute_view")
     /\ request.view_class \in FetchBased
     /\ Violations(params_class(request.view_class), request.params) = {}
     /\ ExternalDataError(request.env.response)
     /\ request.env.draw_ok)
        => /\ Len(outcome.sent) = 1
           /\ Decoded(outcome.sent[1]) = DegradedImage(request.view_class)

(***************************************************************************)
(* SpecCalc: the helpers of the renderers that compute a value from their  *)
(* arguments alone, each applied once to inputs drawn from bounded sets.   *)
(* request is the call and its arguments, outcome what it returned.        *)
(***************************************************************************)
\* _calculate_contribution_level as it would be with a fault: the first
\* threshold is taken one too low.
calculate_contribution_level_low_threshold(count) ==
    IF count = 0 THEN 0
    ELSE IF count < 3 THEN 1
    ELSE IF count <= 9 THEN 2
    ELSE 3

\* GitHubContributionsView._calculate_contribution_level
calculate_contribution_level(count) ==
    IF count = 0 THEN 0
    ELSE IF count <= 3 THEN 1
    ELSE IF count <= 9 THEN 2
    ELSE 3

\* Bound: the daily contribution counts run up to MaxCount, and 1000.
MaxCount == 12
Counts == 0..MaxCount \cup {1000}

InitCalc ==
    /\ pc = "idle"
    /\ request = [op |-> "none"]
    /\ outcome = Unused
    /\ text = Unused /\ font = Unused /\ max_width = Unused /\ lines = Unused
    /\ fs \in CacheEnvs
    /\ fm = Unused /\ call = Unused /\ ret = Unused /\ calls_left = 0
    /\ fit = Unused
    /\ view_registry = Unused

\* The levels of two days of the calendar (_generate_github_image, lines
\* 227-228).
ContributionLevels(first, second) ==
    /\ pc = "idle"
    /\ request' = [op |-> "calculate_contribution_level", counts |-> <<first, second>>]
    /\ outcome' = <<calculate_contribution_level(first), calculate_contribution_level(second)>>
    /\ pc' = "done"
    /\ UNCHANGED <<wrapVars, fs, fontVars, fit, view_registry>>

\* int(digits) of a string of decimal digits
RECURSIVE int_of(_)
int_of(digits) ==
    IF digits = <<>> THEN 0
    ELSE 10 * int_of(SubSeq(digits, 1, Len(digits) - 1)) + DigitValue[digits[Len(digits)]]

\* f"{x:.0f}" of the exact quotient num / den >= 0: the nearest whole number,
\* the even one when two are as near.
round_half_even(num, den) ==
    LET q == num \div den
        r == num % den
    IN  IF 2 * r > den \/ (2 * r = den /\ q % 2 = 1) THEN q + 1 ELSE q

\* The pairs (current, previous) of Metrics whose change is a double just
\* under a half that the exact quotient reaches: ((17 - 40) / 40) * 100 is
\* -57.49999999999999 and prints as 57.
FloatTieBelow == {<<17, 40>>}

\* f"{abs(change):.0f}%" for change = ((current - previous) / previous) * 100
format_change(current, previous) ==
    LET distance == IF current >= previous THEN current - previous ELSE previous - current
        exact == round_half_even(100 * distance, previous)
    IN  str_int(IF <<current, previous>> \in FloatTieBelow THEN exact - 1 ELSE exact)
            \o <<"%">>

\* _calculate_change_percentage as it would be with a fault: the percentage
\* is cut to a whole number, not rounded.
calculate_change_percentage_truncating(current, previous) ==
    IF previous = 0
    THEN IF current > 0 THEN <<<<"1", "0", "0", "%">>, "up">> ELSE <<<<"0", "%">>, "">>
    ELSE LET distance == IF current >= previous THEN current - previous
                         ELSE previous - current
         IN  <<str_int((100 * distance) \div previous) \o <<"%">>,
               IF current > previous THEN "up" ELSE IF current < previous THEN "down" ELSE "">>

\* UmamiStatsView._calculate_change_percentage on counts: the percentage
\* string and the triangle, "up", "down" or "" for none.
calculate_change_percentage(current, previous) ==
    IF previous = 0
    THEN IF current > 0 THEN <<<<"1", "0", "0", "%">>, "up">> ELSE <<<<"0", "%">>, "">>
    ELSE IF current > previous THEN <<format_change(current, previous), "up">>
    ELSE IF current < previous THEN <<format_change(current, previous), "down">>
    ELSE <<<<"0", "%">>, "">>

\* Bound: the counts of a metric run up to MaxMetric, and a few larger ones.
MaxMetric == 12
Metrics == 0..MaxMetric \cup {17, 40, 50, 80, 100}

CalculateChangePercentage(current, previous) ==
    /\ pc = "idle"
    /\ request' = [op |-> "calculate_change_percentage", current |-> current,
                   previous |-> previous]
    /\ outcome' = calculate_change_percentage(current, previous)
    /\ pc' = "done"
    /\ UNCHANGED <<wrapVars, fs, fontVars, fit, view_registry>>

\* _format_time_duration as it would be with a fault: the minutes are
\* written even when there are none.
format_time_duration_with_zero_minutes(total_seconds) ==
    IF total_seconds < 60 THEN str_int(total_seconds) \o <<"s">>
    ELSE IF total_seconds < 3600 THEN str_int(total_seconds \div 60) \o <<"m">>
    ELSE str_int(total_seconds \div 3600) \o <<"h", " ">>
             \o str_int((total_seconds % 3600) \div 60) \o <<"m">>

\* CodeStatusView._format_time_duration of a whole number of seconds
format_time_duration(total_seconds) ==
    IF total_seconds < 60 THEN str_int(total_seconds) \o <<"s">>
    ELSE IF total_seconds < 3600 THEN str_int(total_seconds \div 60) \o <<"m">>
    ELSE LET hours == total_seconds \div 3600
             minutes == (total_seconds % 3600) \div 60
         IN  IF minutes > 0
             THEN str_int(hours) \o <<"h", " ">> \o str_int(minutes) \o <<"m">>
             ELSE str_int(hours) \o <<"h">>

\* UmamiStatsView._format_time
format_time(seconds) ==
    IF seconds < 60 THEN str_int(seconds) \o <<"s">>
    ELSE IF seconds < 3600
    THEN LET minutes == seconds \div 60 IN str_int(minutes) \o <<"m">>
    ELSE LET hours == seconds \div 3600
             minutes == (seconds % 3600) \div 60
         IN  IF minutes > 0
             THEN str_int(hours) \o <<"h", " ">> \o str_int(minutes) \o <<"m">>
             ELSE str_int(hours) \o <<"h">>

\* Bound: the durations are the seconds up to MaxShortDuration, the minutes
\* and the hours up to it, the seconds around them, and a day and more.
MaxShortDuration == 5
Durations ==
    UNION {{s, 60 * s, 60 * s + 59, 3600 * s, 3600 * s + 59, 3600 * s + 60,
            3600 * s + 60 * s, 3600 * s + 3599} : s \in 0..MaxShortDuration}
        \cup {86399, 86400, 90061}

\* Both formatters on the same number of seconds.
FormatDuration(seconds) ==
    /\ pc = "idle"
    /\ request' = [op |-> "format_duration", seconds |-> seconds]
    /\ outcome' = [code_status |-> format_time_duration(seconds),
                   umami_stats |-> format_time(seconds)]
    /\ pc' = "done"
    /\ UNCHANGED <<wrapVars, fs, fontVars, fit, view_registry>>

\* The statusbar payload of Wakatime as far as _generate_status_image reads
\* it: data.grand_total.total_seconds (Absent when the key is missing) and
\* data.languages, each language with its name and total_seconds.  A value
\* that may be missing is the empty sequence or the sequence of the value.
Absent == <<>>
Present(v) == <<v>>
Language(name, total_seconds) == [name |-> name, total_seconds |-> total_seconds]
StatusBar(total_seconds, languages) ==
    [total_seconds |-> total_seconds, languages |-> languages]

\* data.get(...).get("total_seconds", 0)
get_total_seconds(d) == IF d.total_seconds = Absent THEN 0 ELSE d.total_seconds[1]

\* The line of a language (lines 97-100).  A line is the sequence of its
\* pieces, a formatted duration by character.
language_line(lang) ==
    <<lang.name, ": ">> \o format_time_duration(get_total_seconds(lang))

\* The content lines as they would be with a fault: every language gets a
\* line.
status_lines_all_languages(d) ==
    IF get_total_seconds(d) > 0
    THEN <<<<"Today's Coding">>,
           <<"Total: ">> \o format_time_duration(get_total_seconds(d))>>
             \o (IF d.languages # <<>>
                 THEN <<<<"Top Languages:">>>>
                          \o [i \in DOMAIN d.languages |-> language_line(d.languages[i])]
                 ELSE <<>>)
    ELSE <<<<"Today's Coding">>, <<"No coding time">>, <<"tracked today">>>>

\* CodeStatusView._generate_status_image, lines 79-104: the content lines.
status_lines(d) ==
    IF get_total_seconds(d) > 0
    THEN <<<<"Today's Coding">>,
           <<"Total: ">> \o format_time_duration(get_total_seconds(d))>>
             \o (IF d.languages # <<>>
                 THEN <<<<"Top Languages:">>>>
                          \o [i \in DOMAIN Take(d.languages, 3) |->
                                 language_line(d.languages[i])]
                 ELSE <<>>)
    ELSE <<<<"Today's Coding">>, <<"No coding time">>, <<"tracked today">>>>

\* The shape of a well-formed payload, as generate_status_image tells them
\* apart: with coding time to show or without.
status_shape(d) == IF get_total_seconds(d) > 0 THEN "data" ELSE "zero"

\* Bound: a payload lists up to MaxLanguages languages.
MaxLanguages == 4
LanguagePool ==
    {Language("Python", Present(3725)), Language("Go", Present(59)),
     Language("Rust", Absent), Language("TLA+", Present(600))}
LanguageLists ==
    {l \in SeqsUpTo(LanguagePool, MaxLanguages) :
        \A i, j \in DOMAIN l : l[i] = l[j] => i = j}
StatusBars ==
    {StatusBar(t, l) : t \in {Absent, Present(0), Present(42), Present(3725)}, l \in LanguageLists}

\* _generate_status_image on a well-formed payload, drawing working.
GenerateStatusImage(d) ==
    /\ pc = "idle"
    /\ request' = [op |-> "generate_status_image", data |-> d]
    /\ outcome' = [lines |-> status_lines(d),
                   image |-> generate_status_image(fs, status_shape(d), TRUE)]
    /\ pc' = "done"
    /\ UNCHANGED <<wrapVars, fs, fontVars, fit, view_registry>>

\* A week of the contribution calendar: its number in the calendar (1 is
\* the oldest) and the contribution counts of its days.
Week(id, days) == [id |-> id, contributionDays |-> days]

\* A cell of the grid: the week and the day (from 0) it stands for, and the
\* arguments of _draw_contribution_cell.  The rectangle drawn is
\* [x, y, x + size, y + size].
Cell(week, day_index, x, y, size, level) ==
    [week |-> week, day |-> day_index, x |-> x, y |-> y, size |-> size, level |-> level]

\* The grid as it would be with a fault: every week received gets a column.
contribution_grid_all_weeks(weeks) ==
    LET cell_size == 9
        total_grid_width == Len(weeks) * (cell_size + 2) - 2
        grid_left == (296 - total_grid_width) \div 2
    IN  {Cell(weeks[w].id, d - 1, grid_left + (w - 1) * (cell_size + 2),
              68 + (d - 1) * (cell_size + 2), cell_size,
              calculate_contribution_level(weeks[w].contributionDays[d])) :
            <<w, d>> \in {p \in (DOMAIN weeks) \X (1..7) :
                             p[2] \in DOMAIN weeks[p[1]].contributionDays}}

\* GitHubContributionsView._generate_github_image, lines 187-230: the cells
\* drawn for the weeks of the calendar.
contribution_grid(weeks) ==
    LET width == 296
        height == 152
        top_section_height == 60
        grid_top == top_section_height + 8
        grid_bottom == height - 5
        available_width == (width - 5) - 5
        available_height == grid_bottom - grid_top
        gap == 2
        cell_size_from_height == (available_height - (7 - 1) * gap) \div 7
        max_weeks == (available_width + gap) \div (cell_size_from_height + gap)
        num_weeks == IF max_weeks < Len(weeks) THEN max_weeks ELSE Len(weeks)
        cell_size == IF cell_size_from_height > 4 THEN cell_size_from_height ELSE 4
        \* weeks[-num_weeks:], which is all of weeks when num_weeks is 0
        last_weeks == IF num_weeks = 0 THEN weeks
                      ELSE SubSeq(weeks, Len(weeks) - num_weeks + 1, Len(weeks))
        total_grid_width == num_weeks * (cell_size + gap) - gap
        grid_left == (width - total_grid_width) \div 2
    IN  {Cell(last_weeks[w].id, d - 1, grid_left + (w - 1) * (cell_size + gap),
              grid_top + (d - 1) * (cell_size + gap), cell_size,
              calculate_contribution_level(last_weeks[w].contributionDays[d])) :
            <<w, d>> \in {p \in (DOMAIN last_weeks) \X (1..7) :
                             p[2] \in DOMAIN last_weeks[p[1]].contributionDays}}

\* Bound: the weeks of a calendar.
MaxWeeks == 28

\* The calendars: n weeks of 7 days, of which the oldest and the current one
\* may be shorter; the count of a day follows from its place.
Calendar(n, first_days, last_days) ==
    [w \in 1..n |->
        Week(w, [d \in 1..(IF w = n THEN last_days
                           ELSE IF w = 1 THEN first_days ELSE 7) |->
                    (w * 7 + d * 3) % 12])]
Calendars ==
    {Calendar(n, f, l) : n \in 0..MaxWeeks, f \in {1, 7}, l \in {0, 1, 4, 7}}

\* The grid of _generate_github_image for a calendar.
ContributionGrid(weeks) ==
    /\ pc = "idle"
    /\ request' = [op |-> "contribution_grid", weeks |-> weeks]
    /\ outcome' = contribution_grid(weeks)
    /\ pc' = "done"
    /\ UNCHANGED <<wrapVars, fs, fontVars, fit, view_registry>>

\* ":" in line: the pieces of the lines that hold a colon.
HasColon(line) ==
    \E i \in DOMAIN line : line[i] \in {"Total: ", "Total:", ": ", "Top Languages:"}

\* The height the sizing pass counts for a content line (lines 124-128).
sized_line_height(line) ==
    IF HasColon(line) /\ line \notin {<<"Total:">>, <<"Top Languages:">>}
    THEN 18 ELSE 20

\* The advance of the drawing pass as it would be with a fault: the line of
\* the total is taken for a regular content line.
drawn_line_height_total_regular(line) ==
    IF HasColon(line) /\ line \notin {<<"Total:">>, <<"Top Languages:">>}
          /\ line[1] # "Total: "
    THEN 18 ELSE 20

\* The advance of current_y after a content line is drawn (lines 143-154).
drawn_line_height(line) ==
    IF HasColon(line) /\ line \notin {<<"Total:">>, <<"Top Languages:">>}
    THEN 18 ELSE 20

\* total_height (lines 122-128) of the lines, the first being the title.
RECURSIVE content_height(_)
content_height(content) ==
    IF content = <<>> THEN 0
    ELSE sized_line_height(Head(content)) + content_height(Tail(content))
total_height(all_lines) == 28 + content_height(Tail(all_lines))

\* The y of each content line as the drawing pass reaches it from y, and
\* current_y after the last (lines 141-154).
RECURSIVE draw_content(_, _)
draw_content(content, y) ==
    IF content = <<>> THEN [ys |-> <<>>, current_y |-> y]
    ELSE LET Rest(r) == [ys |-> <<y>> \o r.ys, current_y |-> r.current_y]
         IN  Rest(draw_content(Tail(content), y + drawn_line_height(Head(content))))

\* The vertical layout of _generate_status_image (lines 121-154).
status_layout(all_lines) ==
    LET height == 152
        centred == (height - total_height(all_lines)) \div 2
        start_y == IF centred > 8 THEN centred ELSE 8
        Placed(r) ==
            [total_height |-> total_height(all_lines), start_y |-> start_y,
             ys |-> <<start_y>> \o r.ys, current_y |-> r.current_y]
    IN  Placed(draw_content(Tail(all_lines), start_y + 28))

\* Bound: the content lines under the title.
MaxContentLines == 6
ContentLinePool ==
    {<<"Top Languages:">>,
     <<"Total: ">> \o format_time_duration(3725),
     language_line(Language("Go", Present(59)))}
LineLists ==
    {<<<<"Today's Coding">>>> \o c : c \in SeqsUpTo(ContentLinePool, MaxContentLines)}

\* The layout pass of _generate_status_image on a list of lines.
LayoutStatusLines(all_lines) ==
    /\ pc = "idle"
    /\ request' = [op |-> "status_layout", lines |-> all_lines]
    /\ outcome' = status_layout(all_lines)
    /\ pc' = "done"
    /\ UNCHANGED <<wrapVars, fs, fontVars, fit, view_registry>>

\* The clock strings of a configuration and the moments of a day at which
\* the status is asked for; a moment is a second of the day and whether
\* half a second more has passed.
Clock(h1, h2, m1, m2) == <<h1, h2, ":", m1, m2>>
ClocksIn == {Clock("0", "9", "0", "0"), Clock("1", "2", "3", "0"), <<"9", "a", "m">>}
ClocksOut ==
    {Clock("1", "8", "0", "0"), Clock("0", "8", "0", "0"), Clock("2", "4", "0", "0"),
     Clock("1", "8", "0", "0") \o <<":", "3", "0">>}
Moments ==
    {[second |-> s, half |-> h] :
        s \in {8 * 3600, 9 * 3600, 12 * 3600 + 1, 17 * 3600 + 58 * 60 + 59,
               17 * 3600 + 59 * 60, 17 * 3600 + 59 * 60 + 59, 18 * 3600,
               18 * 3600 + 29, 18 * 3600 + 30, 23 * 3600},
        h \in {0, 1}}

\* WorkView.calculate_work_status(clock_in, clock_out) at the moment now.
CalculateWorkStatus(clock_in, clock_out, now) ==
    /\ pc = "idle"
    /\ request' = [op |-> "calculate_work_status", clock_in |-> clock_in,
                   clock_out |-> clock_out, now |-> now]
    /\ outcome' = calculate_work_status(clock_in, clock_out, now)
    /\ pc' = "done"
    /\ UNCHANGED <<wrapVars, fs, fontVars, fit, view_registry>>

NextCalc ==
    \/ \E first \in Counts, second \in Counts : ContributionLevels(first, second)
    \/ \E current \in Metrics, previous \in Metrics : CalculateChangePercentage(current, previous)
    \/ \E seconds \in Durations : FormatDuration(seconds)
    \/ \E d \in StatusBars : GenerateStatusImage(d)
    \/ \E weeks \in Calendars : ContributionGrid(weeks)
    \/ \E all_lines \in LineLists : LayoutStatusLines(all_lines)
    \/ \E clock_in \in ClocksIn, clock_out \in ClocksOut, now \in Moments : CalculateWorkStatus(clock_in, clock_out, now)

SpecCalc == InitCalc /\ [][NextCalc]_vars

Returned(op) == pc = "done" /\ request.op = op

\* C11: _calculate_contribution_level gives 0 for a count of 0, 1 for 1..3,
\* 2 for 4..9 and 3 for 10 and more, always a level in 0..3, and a day with
\* no fewer contributions than another gets no lower a level.
C11_ContributionLevel ==
    Returned("calculate_contribution_level") =>
        /\ \A i \in 1..2 :
              LET count == request.counts[i]
                  level == outcome[i]
              IN  /\ level \in 0..3
                  /\ level = 0 <=> count = 0
                  /\ level = 1 <=> count \in 1..3
                  /\ level = 2 <=> count \in 4..9
                  /\ level = 3 <=> count >= 10
        /\ request.counts[1] <= request.counts[2] => outcome[1] <= outcome[2]

\* Witness of C11: the days at both sides of a threshold, 3 and 4.
C11_Witness ==
    /\ Returned("calculate_contribution_level")
    /\ request.counts = <<3, 4>>
    /\ outcome = <<1, 2>>

\* The whole number a percentage string shows.
PercentShown(s) == int_of(SubSeq(s, 1, Len(s) - 1))

\* n is a whole number nearest to 100 * |current - previous| / previous.
NearestPercent(n, current, previous) ==
    LET distance == IF current >= previous THEN current - previous ELSE previous - current
        off == IF 100 * distance >= n * previous
               THEN 100 * distance - n * previous
               ELSE n * previous - 100 * distance
    IN  2 * off <= previous

\* C12 as stated: "100%" with an up arrow for previous = 0 < current, "0%"
\* with no arrow when both are 0, and in every other case the whole-number
\* percentage of the change with an up arrow or a down arrow.
C12_EveryOtherCaseHasArrow ==
    Returned("calculate_change_percentage") =>
        LET current == request.current
            previous == request.previous
        IN  /\ (previous = 0 /\ current > 0) => outcome = <<<<"1", "0", "0", "%">>, "up">>
            /\ (previous = 0 /\ current = 0) => outcome = <<<<"0", "%">>, "">>
            /\ previous > 0 =>
                  /\ outcome[1][Len(outcome[1])] = "%"
                  /\ NearestPercent(PercentShown(outcome[1]), current, previous)
                  /\ outcome[2] \in {"up", "down"}
                  /\ outcome[2] = "up" <=> current > previous

\* C12: _calculate_change_percentage on counts returns "100%" with an up
\* arrow for previous = 0 < current and "0%" with no arrow when both are 0;
\* for previous > 0 it returns the whole number nearest to
\* 100 * |current - previous| / previous followed by "%", with an up arrow
\* when current > previous, a down arrow when current < previous, and "0%"
\* with no arrow when current = previous.
C12_ChangePercentage ==
    Returned("calculate_change_percentage") =>
        LET current == request.current
            previous == request.previous
        IN  /\ (previous = 0 /\ current > 0) => outcome = <<<<"1", "0", "0", "%">>, "up">>
            /\ (previous = 0 /\ current = 0) => outcome = <<<<"0", "%">>, "">>
            /\ previous > 0 =>
                  /\ outcome[1][Len(outcome[1])] = "%"
                  /\ NearestPercent(PercentShown(outcome[1]), current, previous)
                  /\ current > previous => outcome[2] = "up"
                  /\ current < previous => outcome[2] = "down"
                  /\ current = previous => outcome = <<<<"0", "%">>, "">>

\* Witness of C12: a drop from 100 to 80 shown as "20%" with a down arrow.
C12_Witness ==
    /\ Returned("calculate_change_percentage")
    /\ request.current = 80 /\ request.previous = 100
    /\ outcome = <<<<"2", "0", "%">>, "down">>

\* C14 as stated: "Ns" under a minute, "Nm" under an hour, "Nh Nm" from one
\* hour on, and both formatters agree.
C14_HoursAlwaysWithMinutes ==
    Returned("format_duration") =>
        LET seconds == request.seconds
            shown == outcome.code_status
        IN  /\ outcome.umami_stats = shown
            /\ seconds < 60 => shown = str_int(seconds) \o <<"s">>
            /\ (60 <= seconds /\ seconds < 3600) => shown = str_int(seconds \div 60) \o <<"m">>
            /\ seconds >= 3600 =>
                  shown = str_int(seconds \div 3600) \o <<"h", " ">>
                              \o str_int((seconds % 3600) \div 60) \o <<"m">>

\* C14: a whole number of seconds is formatted as "Ns" under a minute, as
\* "Nm" (whole minutes) under an hour, and from one hour on as "Nh Nm" (whole
\* hours and remaining whole minutes) when the remaining minutes are not 0
\* and as "Nh" when they are; the formatters of code_status and umami_stats
\* return the same string.
C14_DurationFormat ==
    Returned("format_duration") =>
        LET seconds == request.seconds
            shown == outcome.code_status
            minutes == (seconds % 3600) \div 60
        IN  /\ outcome.umami_stats = shown
            /\ seconds < 60 => shown = str_int(seconds) \o <<"s">>
            /\ (60 <= seconds /\ seconds < 3600) => shown = str_int(seconds \div 60) \o <<"m">>
            /\ (seconds >= 3600 /\ minutes > 0) =>
                  shown = str_int(seconds \div 3600) \o <<"h", " ">> \o str_int(minutes) \o <<"m">>
            /\ (seconds >= 3600 /\ minutes = 0) =>
                  shown = str_int(seconds \div 3600) \o <<"h">>

\* Witness of C14: one hour and 59 seconds, shown as "1h" by both.
C14_Witness ==
    /\ Returned("format_duration")
    /\ request.seconds = 3659
    /\ outcome.code_status = <<"1", "h">>
    /\ outcome.umami_stats = <<"1", "h">>

\* C13: for a well-formed payload whose total coding seconds is 0 or absent
\* the content is the three fixed lines "Today's Coding", "No coding time",
\* "tracked today" and no language line; when it is positive the lines are
\* the title, the total and, if there are languages, the heading and one
\* line for each of the first 3 languages at most, in the order received;
\* either way no exception is raised and the image is 1-bit 296 x 152.
C13_StatusLines ==
    Returned("generate_status_image") =>
        LET d == request.data
            shown == outcome.lines
            languages == d.languages
            listed == IF Len(languages) <= 3 THEN Len(languages) ELSE 3
        IN  /\ outcome.image.ok
            /\ Is1Bit296x152(png_decode(outcome.image.image_data))
            /\ d.total_seconds \in {Absent, Present(0)} =>
                  shown = <<<<"Today's Coding">>, <<"No coding time">>, <<"tracked today">>>>
            /\ (d.total_seconds # Absent /\ d.total_seconds[1] > 0) =>
                  /\ shown[1] = <<"Today's Coding">>
                  /\ shown[2] = <<"Total: ">> \o format_time_duration(d.total_seconds[1])
                  /\ languages = <<>> => Len(shown) = 2
                  /\ languages # <<>> =>
                        /\ Len(shown) = 3 + listed
                        /\ shown[3] = <<"Top Languages:">>
                        /\ \A i \in 1..listed :
                              /\ shown[3 + i][1] = languages[i].name
                              /\ shown[3 + i] = language_line(languages[i])

\* Witness of C13: coding time and four languages, of which three are listed.
C13_Witness ==
    /\ Returned("generate_status_image")
    /\ request.data.total_seconds = Present(3725)
    /\ Len(request.data.languages) = 4
    /\ Len(outcome.lines) = 6
    /\ outcome.lines[2] = <<"Total: ", "1", "h", " ", "2", "m">>
    /\ outcome.image.ok

\* Witness of the other case of C13: no total in the payload, languages
\* listed in it, and the three fixed lines drawn.
C13_WitnessNoTime ==
    /\ Returned("generate_status_image")
    /\ request.data.total_seconds = Absent
    /\ request.data.languages # <<>>
    /\ Len(outcome.lines) = 3
    /\ outcome.image.ok

(***************************************************************************)
(* The cache and the catalog of one FontManager (SpecFont).                *)
(***************************************************************************)

\* The step is a call of get_font.
GetFontStep == call'.op = "get_font" /\ calls_left' = calls_left - 1
CallKey(c) == <<c.size, c.font_name, c.font_weight>>

\* C15: a get_font call whose (size, name, weight) key is in the cache
\* returns the cached font and leaves the manager as it is (no discovery, no
\* resolution); every get_font call leaves the entries of all other keys as
\* they are and the cache with exactly the keys it had plus the key of the
\* call, so that the cache holds one entry for each distinct key requested.
C15_CachePerKey ==
    [][GetFontStep =>
          LET key == CallKey(call')
          IN  /\ DOMAIN fm'.font_cache = DOMAIN fm.font_cache \cup {key}
              /\ \A k \in DOMAIN fm.font_cache : fm'.font_cache[k] = fm.font_cache[k]
              /\ ret'.exc = NoException /\ ret'.font = fm'.font_cache[key]
              /\ key \in DOMAIN fm.font_cache =>
                    /\ call'.cached
                    /\ ret'.font = fm.font_cache[key]
                    /\ fm' = fm]_vars

\* Witness of C15: the second call repeats the key of the first and gets the
\* one cached font; discovery ran once.
C15_Witness ==
    /\ call.op = "get_font" /\ call.cached
    /\ calls_left = MaxCalls - 2
    /\ DOMAIN fm.font_cache = {CallKey(call)}
    /\ ret.font = fm.font_cache[CallKey(call)]
    /\ ret.font.kind = "FreeTypeFont"
    /\ fm.finds = 1

\* Two keys that differ in the weight alone hold their own entries, with
\* different fonts where the font file is variable.
C15_WitnessSeparateEntries ==
    /\ call.op = "get_font" /\ ~call.cached
    /\ \E k1, k2 \in DOMAIN fm.font_cache :
          /\ k1[1] = k2[1] /\ k1[2] = k2[2] /\ k1[3] # k2[3]
          /\ fm.font_cache[k1] # fm.font_cache[k2]

\* C16: on one FontManager _find_system_fonts runs at most once over any
\* sequence of calls, and only inside a get_font or get_available_fonts call
\* made while the manager holds no catalog: a new manager has not searched,
\* and clear_cache and cache hits do not search.
C16_DiscoveryOnceAndLazy ==
    /\ [](/\ fm.finds <= 1
          /\ fm.system_fonts.discovered <=> fm.finds = 1
          /\ call.op = "none" => fm.finds = 0)
    /\ [][fm'.finds # fm.finds =>
             /\ call'.op \in {"get_font", "get_available_fonts"}
             /\ ~call'.cached
             /\ ~fm.system_fonts.discovered
             /\ fm'.finds = fm.finds + 1]_vars

\* Witness of C16: two get_font calls with different keys and a
\* get_available_fonts call, and one search of the directories.
C16_Witness ==
    /\ calls_left = MaxCalls - 3
    /\ call.op = "get_available_fonts"
    /\ Cardinality(DOMAIN fm.font_cache) = 2
    /\ fm.system_fonts.discovered
    /\ fm.finds = 1

\* C18: clear_cache invalidates the catalog, so that the first get_font call
\* after a clear_cache call searches the font directories again, and a
\* catalog once held is given up in no step other than a clear_cache call.
C18_ClearInvalidatesCatalog ==
    /\ [][(call.op = "clear_cache" /\ GetFontStep) => fm'.finds = fm.finds + 1]_vars
    /\ [][(fm.system_fonts.discovered /\ ~fm'.system_fonts.discovered) =>
             call'.op = "clear_cache"]_vars

\* What clear_cache does to a manager that has searched: the cache is
\* emptied, the catalog and the count of searches stay.
C18_CatalogSurvivesClear ==
    (call.op = "clear_cache" /\ fm.finds = 1) =>
        /\ fm.font_cache = <<>>
        /\ fm.system_fonts.discovered

\* A manager after get_font, clear_cache, get_font: one search in all.
C18_ResolvedAfterClearWithoutSearch ==
    /\ calls_left = MaxCalls - 3
    /\ call.op = "get_font" /\ ~call.cached
    /\ Cardinality(DOMAIN fm.font_cache) = 1
    /\ fm.finds = 1

(***************************************************************************)
(* SpecRenders: renders dispatched one after another through               *)
(* ViewFactory.execute_view in one process.  call is the sequence of the   *)
(* view types rendered so far, fm the font manager of the view instance of *)
(* the last render after its fonts are loaded, ret the totals of the       *)
(* process: the runs of _find_system_fonts and the fonts resolved (cache   *)
(* misses of get_font).                                                    *)
(***************************************************************************)
\* Bound: the renders of one process.
MaxRenders == 3

\* The sizes a renderer asks of self._get_font, in the order of the calls;
\* the raw image renderer asks for none.
RenderSizes(view_class) ==
    CASE view_class = "CodeStatusView" -> <<22, 16, 14, 12>>
      [] view_class = "UmamiStatsView" -> <<18, 14, 20, 12>>
      [] view_class = "GitHubContributionsView" -> <<16, 12>>
      [] OTHER -> <<>>

RenderedTypes ==
    {"image", "code_status", "umami_stats", "github_contributions", "title_image", "work"}

\* custom_font_name and font_weight of a view instance, as the __init__ of
\* its class leaves them.
view_font_name(view_class) ==
    CASE view_class = "WorkView" -> SourceHanSansVF
      [] view_class \in {"CodeStatusView", "UmamiStatsView", "GitHubContributionsView"} ->
            HackBold
      [] OTHER -> NoName
view_font_weight(view_class) == IF view_class = "WorkView" THEN 600 ELSE NoWeight

\* ImageView._get_font for each size in turn: the manager after the calls.
RECURSIVE fonts_loaded(_, _, _, _)
fonts_loaded(mgr, files, sizes, font_name) ==
    IF sizes = <<>> THEN mgr
    ELSE fonts_loaded(get_font(mgr, files, Head(sizes), font_name, NoWeight).fm,
                      files, Tail(sizes), font_name)

\* ImageView.__init__: every view instance gets a FontManager of its own.
ImageView_init == NewFontManager

\* The font manager of a title view after the get_font calls of
\* _generate_title_image (lines 147-156 and 198-203), which are made on
\* self.font_manager with the size alone.
title_fonts_loaded(files, main_title, sub_title) ==
    LET has_sub == sub_title.t = "str" /\ sub_title.b # <<>>
        max_text_width == (296 * 2) \div 3
        available_height == 152 - 20
        Both(m, u) ==
            get_font(get_font(u.fm, files, m.size, NoName, NoWeight).fm,
                     files, u.size, NoName, NoWeight).fm
        SubSize(m) ==
            Both(m, IF has_sub
                    THEN calculate_optimal_font_size(
                             m.fm, files, sub_title.b, max_text_width,
                             (available_height * 4) \div 10, 32, 16)
                    ELSE m)
    IN  SubSize(calculate_optimal_font_size(
                    ImageView_init, files, main_title.b, max_text_width,
                    IF has_sub THEN (available_height * 6) \div 10 ELSE available_height,
                    IF has_sub THEN 42 ELSE 48, 16))

\* The titles of the title views rendered: a work day at noon, and a short
\* title alone.
render_titles(view_class) ==
    IF view_class = "WorkView"
    THEN work_title_params(ValidParams("WorkView").clock_in.b,
                           ValidParams("WorkView").clock_out.b, Noon)
    ELSE validate(TitleImageParams, ValidParams("TitleImageView")).obj

\* The font manager of a view instance after its render.
render_fonts(view_class, files) ==
    IF view_class \in {"TitleImageView", "WorkView"}
    THEN title_fonts_loaded(files, render_titles(view_class).main_title,
                            render_titles(view_class).sub_title)
    ELSE fonts_loaded(ImageView_init, files, RenderSizes(view_class),
                      view_font_name(view_class))

InitRenders ==
    /\ pc = "renders"
    /\ fs \in CacheEnvs
    /\ view_registry = BuiltinViews
    /\ fm = NewFontManager
    /\ call = <<>>
    /\ ret = [finds |-> 0, resolved |-> 0]
    /\ calls_left = MaxRenders
    /\ text = Unused /\ font = Unused /\ max_width = Unused /\ lines = Unused
    /\ fit = Unused /\ request = Unused /\ outcome = Unused

\* ViewFactory.execute_view(view_type, ...): create_view instantiates the
\* class, the instance loads its fonts while it renders, and is dropped.
Render(view_type) ==
    /\ calls_left > 0
    /\ LET view_class == create_view(view_registry, view_type).result
           loaded == render_fonts(view_class, fs)
       IN  /\ fm' = loaded
           /\ ret' = [finds |-> ret.finds + loaded.finds,
                      resolved |-> ret.resolved + Cardinality(DOMAIN loaded.font_cache)]
    /\ call' = Append(call, view_type)
    /\ calls_left' = calls_left - 1
    /\ UNCHANGED <<pc, fs, wrapVars, fit, factoryVars>>

NextRenders == \E view_type \in RenderedTypes : Render(view_type)

SpecRenders == InitRenders /\ [][NextRenders]_vars

\* The (size, name, weight) keys the renders made so far have asked for.
RenderKeys(view_type) == DOMAIN render_fonts(BuiltinViews[view_type], fs).font_cache
KeysRequested == UNION {RenderKeys(call[i]) : i \in DOMAIN call}

\* C17: over the renders of one process the font directories are searched
\* at most once in total, and a font is resolved once for each
\* (size, name, weight): a later render reuses what an earlier one resolved.
C17_CatalogAndCacheOutliveRenders ==
    /\ ret.finds <= 1
    /\ ret.resolved = Cardinality(KeysRequested)

\* What the renders do: every render that needs a font searches the
\* directories and resolves each of its fonts again.
C17_EveryRenderStartsAfresh ==
    LET needing == {i \in DOMAIN call : call[i] # "image"}
    IN  /\ ret.finds = Cardinality(needing)
        /\ fm.finds = IF call # <<>> /\ call[Len(call)] # "image" THEN 1 ELSE 0
        /\ \A k \in DOMAIN fm.font_cache :
              fm.font_cache[k] = get_font(NewFontManager, fs, k[1], k[2], k[3]).font

\* Two renders of the same status card in a row: two searches, eight fonts
\* resolved for four keys.
C17_SecondRenderSearchesAgain ==
    /\ call = <<"code_status", "code_status">>
    /\ ret.finds = 2
    /\ ret.resolved = 8
    /\ Cardinality(KeysRequested) = 4

(***************************************************************************)
(* The display hints and the registry (Spec).                              *)
(***************************************************************************)
HintNames == {"link", "border", "dither_type", "dither_kernel"}
HintViews ==
    {"ImageView", "TitleImageView", "CodeStatusView", "UmamiStatsView",
     "GitHubContributionsView"}

\* The hint of a delivery request under the name the parameters give it.
HintOf(r, f) ==
    CASE f = "link" -> r.link
      [] f = "border" -> r.border
      [] f = "dither_type" -> r.ditherType
      [] f = "dither_kernel" -> r.ditherKernel

\* The fetch of the call failed with a RequestException, so that what is
\* delivered is the image of the degraded path.
Degraded ==
    /\ request.view_class \in FetchBased
    /\ http_json(request.env.response).exc \in RequestExceptions

\* C19: in every delivery request of an execute_view call on one of the five
\* image views, each of link, border, dither_type and dither_kernel that the
\* parameters of the call give has the value given, whether the data was
\* fetched or the image of the degraded path is sent; and the image of a
\* delivery of the raw image view decodes from base64 to the bytes given.
C19_HintsForwarded ==
    (Returned("execute_view") /\ request.view_class \in HintViews) =>
        \A i \in DOMAIN outcome.sent :
            /\ \A f \in HintNames \cap DOMAIN request.params :
                  HintOf(outcome.sent[i], f) = request.params[f]
            /\ request.view_class = "ImageView" =>
                  b64decode(outcome.sent[i].image) = request.params.image_data.b

\* Witness of C19: the fetch fails, the hints are given, and the image of
\* the degraded path is delivered with them.
C19_Witness ==
    /\ Returned("execute_view") /\ Degraded
    /\ HintNames \subseteq DOMAIN request.params
    /\ Len(outcome.sent) = 1
    /\ outcome.sent[1].link = HintsGiven.link
    /\ outcome.sent[1].border = HintsGiven.border
    /\ outcome.sent[1].ditherType = HintsGiven.dither_type
    /\ outcome.sent[1].ditherKernel = HintsGiven.dither_kernel

\* The raw image view forwards bytes that are no 1-bit 296 x 152 image with
\* the hints given.
C19_WitnessRawImage ==
    /\ Returned("execute_view") /\ request.view_class = "ImageView"
    /\ Len(outcome.sent) = 1
    /\ request.params.image_data.b = GreyPng
    /\ b64decode(outcome.sent[1].image) = GreyPng
    /\ outcome.sent[1].ditherKernel = HintsGiven.dither_kernel

\* C20: a register_view call maps the name to the class given, so that
\* create_view on the name gives that class, adds the name to what
\* get_available_types lists, and leaves every other name with the class it
\* had; so after any registrations the built-in names are still listed, and
\* create_view on a registered name gives the class the registry holds.
C20_RegisterViewFrame ==
    /\ [][view_registry' # view_registry =>
             \E r \in Registrations :
                 /\ create_view(view_registry', r[1]).exc = NoException
                 /\ create_view(view_registry', r[1]).result = r[2]
                 /\ get_available_types(view_registry')
                        = get_available_types(view_registry) \cup {r[1]}
                 /\ \A k \in get_available_types(view_registry) \ {r[1]} :
                        view_registry'[k] = view_registry[k]]_vars
    /\ [](/\ DOMAIN BuiltinViews \subseteq get_available_types(view_registry)
          /\ \A k \in DOMAIN BuiltinViews \ {r[1] : r \in Registrations} :
                 view_registry[k] = BuiltinViews[k]
          /\ (Returned("create_view")
                  /\ request.view_type \in get_available_types(view_registry)) =>
                 outcome.result = view_registry[request.view_type])

\* Witness of C20: a new name and a built-in name were registered, the new
\* name resolves to its class and the other built-in names to theirs.
C20_Witness ==
    /\ Returned("create_view") /\ request.view_type = "custom"
    /\ outcome.exc = NoException /\ outcome.result = "TextView"
    /\ view_registry["text"] = "ImageView"
    /\ view_registry["work"] = "WorkView"
    /\ get_available_types(view_registry) = DOMAIN BuiltinViews \cup {"custom"}

(***************************************************************************)
(* SpecRace: get_font invoked by several threads on one FontManager.  A    *)
(* thread runs the statements of get_font one at a time, and the threads   *)
(* interleave between any two statements.  call is the query of each       *)
(* thread, ret the position of each thread, the font it holds in its local *)
(* variable and the font it returned; fm is the shared manager.            *)
(***************************************************************************)
\* Bound: the threads that call get_font at once.
MaxThreads == 2
Threads == 1..MaxThreads

Query(size, font_name, font_weight) ==
    [size |-> size, font_name |-> font_name, font_weight |-> font_weight]
RaceQueries ==
    {Query(12, NoName, NoWeight), Query(12, SourceHanSansVF, NoWeight),
     Query(12, SourceHanSansVF, 600)}

\* self._font_cache[cache_key] = font as it would be with a fault: the
\* dict is replaced by one that holds the new entry alone.
cache_store_replacing(mgr, cache_key, f) ==
    [mgr EXCEPT !.font_cache = [k \in {cache_key} |-> f]]

\* self._font_cache[cache_key] = font (line 113)
cache_store(mgr, cache_key, f) ==
    [mgr EXCEPT !.font_cache =
        [k \in DOMAIN @ \cup {cache_key} |-> IF k = cache_key THEN f ELSE @[k]]]

AtEntry == [at |-> "check", local |-> NullFont, returned |-> NullFont]

InitRace ==
    /\ pc = "race"
    /\ fs \in CacheEnvs
    /\ fm = NewFontManager
    /\ call \in [Threads -> RaceQueries]
    /\ ret = [t \in Threads |-> AtEntry]
    /\ calls_left = 0
    /\ text = Unused /\ font = Unused /\ max_width = Unused /\ lines = Unused
    /\ fit = Unused
    /\ view_registry = Unused /\ request = Unused /\ outcome = Unused

Moves(t, to) == ret' = [ret EXCEPT ![t].at = to]
RaceFrame == UNCHANGED <<pc, fs, call, calls_left, wrapVars, fit, factoryVars>>

\* lines 91-93: the cache lookup and the return of a cached font
CheckCache(t) ==
    /\ ret[t].at = "check"
    /\ IF CallKey(call[t]) \in DOMAIN fm.font_cache
       THEN ret' = [ret EXCEPT ![t].at = "done",
                               ![t].returned = fm.font_cache[CallKey(call[t])]]
       ELSE Moves(t, "test")
    /\ UNCHANGED fm
    /\ RaceFrame

\* line 96: if self._system_fonts is None
TestCatalog(t) ==
    /\ ret[t].at = "test"
    /\ Moves(t, IF fm.system_fonts.discovered THEN "resolve" ELSE "discover")
    /\ UNCHANGED fm
    /\ RaceFrame

\* line 97: the directories are searched and the catalog is assigned
Discover(t) ==
    /\ ret[t].at = "discover"
    /\ fm' = [fm EXCEPT !.system_fonts = find_system_fonts(fs), !.finds = @ + 1]
    /\ Moves(t, "resolve")
    /\ RaceFrame

\* lines 99-110: the font is loaded and the weight applied
Resolve(t) ==
    /\ ret[t].at = "resolve"
    /\ LET q == call[t]
           loaded == IF q.font_name # NoName
                     THEN load_specific_font(fm.system_fonts, fs, q.font_name, q.size)
                     ELSE load_best_font(fm.system_fonts, fs, q.size)
       IN  ret' = [ret EXCEPT ![t].at = "store",
                              ![t].local = apply_weight(loaded.font, q.font_weight, fs)]
    /\ UNCHANGED fm
    /\ RaceFrame

\* lines 113-114: the font is cached and returned
Store(t) ==
    /\ ret[t].at = "store"
    /\ fm' = cache_store(fm, CallKey(call[t]), ret[t].local)
    /\ ret' = [ret EXCEPT ![t].at = "done", ![t].returned = ret[t].local]
    /\ RaceFrame

NextRace ==
    \E t \in Threads :
        \/ CheckCache(t)
        \/ TestCatalog(t)
        \/ Discover(t)
        \/ Resolve(t)
        \/ Store(t)

SpecRace == InitRace /\ [][NextRace]_vars

\* What one thread alone gets for a query on a new manager.
Sequential(q) == get_font(NewFontManager, fs, q.size, q.font_name, q.font_weight).font

\* C21: whatever the interleaving, every entry of the cache is at all times
\* the font a sequential get_font resolves for its key, under the key of a
\* query made; and once all threads have returned, the cache holds exactly
\* one entry for each distinct query, every thread has returned the font of
\* a sequential resolution of its query, and the directories were searched
\* at least once and at most once by each thread.
C21_RacesOnlyRepeatWork ==
    /\ \A k \in DOMAIN fm.font_cache :
          /\ \E t \in Threads : k = CallKey(call[t])
          /\ fm.font_cache[k] = Sequential(Query(k[1], k[2], k[3]))
    /\ (\A t \in Threads : ret[t].at = "done") =>
          /\ DOMAIN fm.font_cache = {CallKey(call[t]) : t \in Threads}
          /\ \A t \in Threads :
                /\ ret[t].returned = Sequential(call[t])
                /\ ret[t].returned # NullFont
          /\ fm.finds \in 1..MaxThreads

\* Witness of C21: two threads with the same query have both searched the
\* directories and stored their font, and one entry is held.
C21_Witness ==
    /\ \A t \in Threads : ret[t].at = "done" /\ call[t] = Query(12, SourceHanSansVF, 600)
    /\ fm.finds = 2
    /\ Cardinality(DOMAIN fm.font_cache) = 1
    /\ ret[1].returned.kind = "FreeTypeFont"
    /\ ret[1].returned.weight = 600

(***************************************************************************)
(* Failures of drawing and of delivery (Spec).                             *)
(***************************************************************************)
\* The call reached the generation of its image and drawing failed in it.
DrawingFailed ==
    /\ Returned("execute_view")
    /\ ~request.env.draw_ok
    /\ "draw" \in Range(outcome.effects)

\* C22: when drawing fails inside the image generation of a renderer, the
\* execute call raises to its caller and nothing is delivered.
C22_DrawingFailureReported ==
    DrawingFailed => (outcome.exc # NoException /\ outcome.sent = <<>>)

\* What the renderers do with a drawing failure: title_image and work raise
\* the wrapping Exception; code_status, umami_stats and github_contributions
\* print it and return normally; none delivers anything.
C22_ReportedOnlyByTitleRenderers ==
    DrawingFailed =>
        /\ outcome.sent = <<>>
        /\ request.view_class \in {"TitleImageView", "WorkView"} => outcome.exc = "Exception"
        /\ request.view_class \in FetchBased => outcome.exc = NoException

\* The status card with its data fetched and drawing failing: execute
\* returns normally.
C22_SwallowedByStatusCard ==
    /\ DrawingFailed
    /\ request.view_class = "CodeStatusView"
    /\ request.env.response = Response("ok", 200, "data")
    /\ outcome.exc = NoException
    /\ outcome.sent = <<>>

(***************************************************************************)
(* Weights and the order of the candidates (SpecFont).                     *)
(***************************************************************************)
\* The font is a variable one: set_variation_by_axes succeeds on it.
SupportsVariation(f) == f.kind = "FreeTypeFont" /\ f.path \in fs.variable

\* C23: a get_font call with a weight does not raise and returns a font,
\* which has the weight asked for if it is a variable font and otherwise its
\* default weight, and which is the entry of the cache under the
\* (size, name, weight) key of the call.
C23_WeightAppliedOrIgnored ==
    (call.op = "get_font" /\ call.font_weight # NoWeight) =>
        /\ ret.exc = NoException
        /\ ret.font # NullFont
        /\ ret.font.weight = IF SupportsVariation(ret.font) THEN call.font_weight
                             ELSE NoWeight
        /\ CallKey(call) \in DOMAIN fm.font_cache
        /\ fm.font_cache[CallKey(call)] = ret.font

\* Witness of C23: Hack-Bold, which has no variation axes, asked for with
\* weight 600 is returned at its default weight and cached under the key
\* with the weight.
C23_Witness ==
    /\ call.op = "get_font" /\ call.font_name = HackBold /\ call.font_weight = 600
    /\ ret.font.kind = "FreeTypeFont"
    /\ ret.font.path = Path("resource", HackBoldTtf)
    /\ ret.font.weight = NoWeight
    /\ fm.font_cache[<<call.size, HackBold, 600>>] = ret.font

\* A variable font asked for with weight 600 has it.
C23_WitnessApplied ==
    /\ call.op = "get_font" /\ call.font_weight = 600
    /\ SupportsVariation(ret.font)
    /\ ret.font.weight = 600

\* The bundled font files in listing order that satisfy a test of their
\* lower-cased stem, as paths.
BundledWhere(Test(_)) ==
    LET fonts == SelectSeq(fs.resource,
                           LAMBDA file : IsFontFile(file)
                                            /\ Test(lower(splitext_base(file))))
    IN  [i \in DOMAIN fonts |-> Path("resource", fonts[i])]

\* The exact stem with .ttf, .otf, .ttc in this order, where the file exists.
ExactStem(font_name) ==
    SelectSeq(<<Path("resource", font_name \o <<".", "t", "t", "f">>),
                Path("resource", font_name \o <<".", "o", "t", "f">>),
                Path("resource", font_name \o <<".", "t", "t", "c">>)>>,
              LAMBDA p : p.name \in Range(fs.resource))

\* The candidates of an unnamed query: the bundled best font, every priority
\* font of the catalog, its first 3 script-coverage fonts, its first 2 Latin
\* fonts, the well-known names.
UnnamedOrder ==
    (IF BestFontFile \in Range(fs.resource) THEN <<Path("resource", BestFontFile)>>
     ELSE <<>>)
        \o fm.system_fonts.priority
        \o SubSeq(fm.system_fonts.chinese, 1, IF Len(fm.system_fonts.chinese) < 3
                                               THEN Len(fm.system_fonts.chinese) ELSE 3)
        \o SubSeq(fm.system_fonts.english, 1, IF Len(fm.system_fonts.english) < 2
                                               THEN Len(fm.system_fonts.english) ELSE 2)
        \o [i \in DOMAIN common_fonts |-> Path("", common_fonts[i])]

\* The order in which the name is a part of the file's stem, case ignored.
SubstringOrder(font_name) ==
    IF font_name = NoName THEN UnnamedOrder
    ELSE ExactStem(font_name)
             \o BundledWhere(LAMBDA stem : Contains(stem, lower(font_name)))
             \o UnnamedOrder

\* The order in which the name is a part of the file's stem or the file's
\* stem a part of the name, case ignored.
EitherWayOrder(font_name) ==
    IF font_name = NoName THEN UnnamedOrder
    ELSE ExactStem(font_name)
             \o BundledWhere(LAMBDA stem : \/ Contains(stem, lower(font_name))
                                           \/ Contains(lower(font_name), stem))
             \o UnnamedOrder

\* The font returned is the first candidate of the order that loads, at the
\* size asked for, and the built-in font when none loads.
ReturnsFirstLoadable(order) ==
    LET loading == {i \in DOMAIN order : order[i] \in fs.loadable}
    IN  IF loading = {} THEN ret.font = DefaultFont
        ELSE /\ ret.font.kind = "FreeTypeFont"
             /\ ret.font.size = call.size
             /\ ret.font.path = order[CHOOSE i \in loading : \A j \in loading : i <= j]

C24_WitnessFileName ==
    /\ call.op = "get_font" /\ call.font_name = HackBoldTtf
    /\ Path("resource", BestFontFile) \in fs.loadable
    /\ ret.font.path = Path("resource", HackBoldTtf)

\* A name that matches nothing gets the font of the unnamed query.
C24_WitnessNoMatch ==
    /\ call.op = "get_font" /\ call.font_name = Roboto
    /\ ret.font.kind = "FreeTypeFont"
    /\ ret.font.path.dir = "system"

(***************************************************************************)
(* The font settings of a view (SpecRenders).  The manager of a render     *)
(* starts empty, so the keys of its cache after the render are the queries *)
(* the render has made.                                                    *)
(***************************************************************************)
LastRendered == BuiltinViews[call[Len(call)]]

\* C25: every font query of a render is made with the custom_font_name and
\* the font_weight of the view: SourceHanSansSC-VF with weight 600 for
\* work, Hack-Bold for code_status, umami_stats and github_contributions.
C25_ViewFontUsedForEveryQuery ==
    (call # <<>> /\ LastRendered \in {"WorkView"} \cup FetchBased) =>
        \A k \in DOMAIN fm.font_cache :
            /\ k[2] = view_font_name(LastRendered)
            /\ k[3] = view_font_weight(LastRendered)

\* What the renders ask for: the fetch-based views name Hack-Bold in every
\* query; the queries of work, as those of title_image, carry no name and no
\* weight.
C25_TitleViewsAskBySizeAlone ==
    call # <<>> =>
        \A k \in DOMAIN fm.font_cache :
            /\ LastRendered \in FetchBased => (k[2] = HackBold /\ k[3] = NoWeight)
            /\ LastRendered \in {"WorkView", "TitleImageView"} =>
                  (k[2] = NoName /\ k[3] = NoWeight)

\* A work render on a machine with every font: fonts were asked for, none by
\* name, and the font held has its default weight.
C25_WorkRenderIgnoresItsFont ==
    /\ call # <<>> /\ LastRendered = "WorkView"
    /\ DOMAIN fm.font_cache # {}
    /\ \A k \in DOMAIN fm.font_cache :
          /\ k[2] = NoName
          /\ fm.font_cache[k].path = Path("resource", BestFontFile)
          /\ fm.font_cache[k].weight = NoWeight

\* The number of times the call did e.
Times(e) == Cardinality({i \in DOMAIN outcome.effects : outcome.effects[i] = e})

RenderingViews ==
    {"TitleImageView", "WorkView", "CodeStatusView", "UmamiStatsView",
     "GitHubContributionsView"}

\* C26: an execute call on an image view calls the delivery client at most
\* once and generates at most one image; a rendering view delivers only
\* after its generation, and what it delivers is the whole encoded image;
\* when generation fails nothing is delivered; and when the device API
\* refuses the delivery there is still one generation and one delivery.
C26_OneDeliveryOfACompleteImage ==
    (Returned("execute_view") /\ request.view_class \in RenderingViews \cup {"ImageView"}) =>
        /\ Len(outcome.sent) <= 1
        /\ Times("deliver") = Len(outcome.sent)
        /\ Times("draw") <= 1
        /\ (request.view_class \in RenderingViews /\ outcome.sent # <<>>) =>
              /\ Times("draw") = 1
              /\ request.env.draw_ok
              /\ Is1Bit296x152(png_decode(b64decode(outcome.sent[1].image)))
        /\ (request.view_class \in RenderingViews /\ ~request.env.draw_ok) =>
              outcome.sent = <<>>
        /\ (outcome.sent # <<>> /\ ~outcome.sent[1].accepted) => outcome.exc = NoException

\* Witness of C26: the status card is fetched and drawn, the device API
\* refuses the delivery, and the call ends with that one delivery.
C26_Witness ==
    /\ Returned("execute_view") /\ request.view_class = "CodeStatusView"
    /\ request.env.response = Response("ok", 200, "data")
    /\ ~request.env.deliver_ok
    /\ Len(outcome.sent) = 1 /\ ~outcome.sent[1].accepted
    /\ Times("draw") = 1 /\ Times("deliver") = 1
    /\ outcome.exc = NoException

(***************************************************************************)
(* The layouts of the contribution grid and of the status card (SpecCalc). *)
(***************************************************************************)
\* C27: the grid shows the min(26, number of weeks) most recent weeks, the
\* oldest of them in the leftmost column, one column of step 11 for each
\* week and one row of step 11 from y = 68 for each day, with the same
\* margin left and right up to a pixel; and every cell, of size 9, lies
\* inside the canvas of 296 x 152 and below the separator line at y = 60.
C27_GridLayout ==
    Returned("contribution_grid") =>
        LET weeks == request.weeks
            n == Len(weeks)
            shown == IF n < 26 THEN n ELSE 26
            left == (296 - (shown * 11 - 2)) \div 2
        IN  /\ {c.week : c \in outcome}
                   = {w \in (n - shown + 1)..n : weeks[w].contributionDays # <<>>}
            /\ \A c \in outcome :
                  /\ c.day + 1 \in DOMAIN weeks[c.week].contributionDays
                  /\ c.level = calculate_contribution_level(
                                   weeks[c.week].contributionDays[c.day + 1])
                  /\ c.size = 9
                  /\ c.x = left + (c.week - (n - shown) - 1) * 11
                  /\ c.y = 68 + c.day * 11
                  /\ 0 <= c.x /\ c.x + c.size <= 296 - 1
                  /\ 60 < c.y /\ c.y + c.size <= 152 - 1
            /\ \A w \in (n - shown + 1)..n : \A d \in DOMAIN weeks[w].contributionDays :
                  Cardinality({c \in outcome : c.week = w /\ c.day = d - 1}) = 1
            /\ shown > 0 =>
                  (296 - (left + shown * 11 - 2)) - left \in {0, 1}

\* Witness of C27: of 28 weeks the last 26 are drawn, week 3 at the left
\* edge and the current week of 4 days in the last column.
C27_Witness ==
    /\ Returned("contribution_grid")
    /\ Len(request.weeks) = 28
    /\ Len(request.weeks[28].contributionDays) = 4
    /\ {c.week : c \in outcome} = 3..28
    /\ \E c \in outcome : c.week = 3 /\ c.day = 6 /\ c.x = 6 /\ c.y = 134
    /\ \E c \in outcome : c.week = 28 /\ c.day = 3 /\ c.x = 281
    /\ Cardinality(outcome) = 25 * 7 + 4

\* A compact line: a language entry or the line of the total, that is a
\* line with a colon that is not a heading alone.
Compact(line) ==
    /\ \E i \in DOMAIN line : line[i] \in {"Total: ", ": "}
    /\ Len(line) > 1

\* C28: for every list of lines the height counted for the centring is 28
\* for the title, 18 for each compact line and 20 for each other line;
\* start_y is max((152 - total_height) div 2, 8); each line is drawn where
\* the line before it ends; and current_y after the last line is
\* start_y + total_height.
C28_CentringHeightIsHeightDrawn ==
    Returned("status_layout") =>
        LET content == Tail(request.lines)
            compact == {i \in DOMAIN content : Compact(content[i])}
            Height(i) == IF i = 1 THEN 28
                         ELSE IF (i - 1) \in compact THEN 18 ELSE 20
        IN  /\ outcome.total_height
                   = 28 + 18 * Cardinality(compact)
                        + 20 * (Len(content) - Cardinality(compact))
            /\ outcome.start_y
                   = IF (152 - outcome.total_height) \div 2 > 8
                     THEN (152 - outcome.total_height) \div 2 ELSE 8
            /\ Len(outcome.ys) = Len(request.lines)
            /\ outcome.ys[1] = outcome.start_y
            /\ \A i \in 2..Len(outcome.ys) : outcome.ys[i] = outcome.ys[i - 1] + Height(i - 1)
            /\ outcome.current_y = outcome.start_y + outcome.total_height

\* Witness of C28: the title, the total, the heading and three languages
\* take 120 pixels from y = 16 to y = 136.
C28_Witness ==
    /\ Returned("status_layout")
    /\ Len(request.lines) = 6
    /\ request.lines[2][1] = "Total: "
    /\ request.lines[3] = <<"Top Languages:">>
    /\ \A i \in 4..6 : request.lines[i][1] = "Go"
    /\ outcome.total_height = 120
    /\ outcome.ys = <<16, 44, 62, 82, 100, 118>>
    /\ outcome.current_y = 136

\* Seven lines take more than the canvas has: start_y is 8.
C28_WitnessTooTall ==
    /\ Returned("status_layout")
    /\ outcome.total_height > 152 - 16
    /\ outcome.start_y = 8
    /\ outcome.current_y = 8 + outcome.total_height

(***************************************************************************)
(* The countdown of the work view (SpecCalc).  Times are counted in half   *)
(* seconds.                                                                *)
(***************************************************************************)
\* c is written HH:MM, with the hour below 24 and the minute below 60.
IsHHMM(c) ==
    /\ Len(c) = 5 /\ c[3] = ":"
    /\ \A i \in {1, 2, 4, 5} : c[i] \in {"0", "1", "2", "3", "4", "5", "6", "7", "8", "9"}
    /\ 10 * DigitValue[c[1]] + DigitValue[c[2]] < 24
    /\ 10 * DigitValue[c[4]] + DigitValue[c[5]] < 60

\* The half seconds of the day at HH:MM
HalfSecondsAt(c) ==
    2 * (3600 * (10 * DigitValue[c[1]] + DigitValue[c[2]])
            + 60 * (10 * DigitValue[c[4]] + DigitValue[c[5]]))
HalfSecondsNow == 2 * request.now.second + request.now.half

\* C29: calculate_work_status gives the format error when a clock time is
\* not a valid HH:MM, the off-work message before clock_in and from
\* clock_out on, and otherwise a countdown with minutes in 0..59 whose
\* hours * 60 + minutes is the time left until clock_out rounded up to whole
\* minutes, which is at least 1.
C29_CountdownRoundsUp ==
    Returned("calculate_work_status") =>
        IF ~IsHHMM(request.clock_in) \/ ~IsHHMM(request.clock_out)
        THEN outcome.kind = "format_error"
        ELSE IF \/ HalfSecondsNow < HalfSecondsAt(request.clock_in)
                \/ HalfSecondsNow >= HalfSecondsAt(request.clock_out)
        THEN outcome.kind = "off_work"
        ELSE LET left == HalfSecondsAt(request.clock_out) - HalfSecondsNow
             IN  /\ outcome.kind = "countdown"
                 /\ outcome.minutes \in 0..59
                 /\ outcome.hours * 60 + outcome.minutes = (left + 119) \div 120
                 /\ outcome.hours * 60 + outcome.minutes >= 1

\* What the code computes for clock times written HH:MM: the part of a
\* second left is dropped first, and the whole seconds are rounded up to
\* minutes; in the last second before clock_out the countdown is 0 minutes.
C29_WholeSecondsRoundUp ==
    (Returned("calculate_work_status")
        /\ IsHHMM(request.clock_in) /\ IsHHMM(request.clock_out)) =>
        IF \/ HalfSecondsNow < HalfSecondsAt(request.clock_in)
           \/ HalfSecondsNow >= HalfSecondsAt(request.clock_out)
        THEN outcome.kind = "off_work"
        ELSE LET whole == (HalfSecondsAt(request.clock_out) - HalfSecondsNow) \div 2
             IN  /\ outcome.kind = "countdown"
                 /\ outcome.minutes \in 0..59
                 /\ outcome.hours * 60 + outcome.minutes = (whole + 59) \div 60
                 /\ (outcome.hours * 60 + outcome.minutes = 0) <=> whole = 0

\* Half a second before 18:00 on a day from 09:00 to 18:00: the countdown
\* says 0 minutes.
C29_ZeroMinutesBeforeClockOut ==
    /\ Returned("calculate_work_status")
    /\ request.clock_in = Clock("0", "9", "0", "0")
    /\ request.clock_out = Clock("1", "8", "0", "0")
    /\ request.now = [second |-> 17 * 3600 + 59 * 60 + 59, half |-> 1]
    /\ outcome = [kind |-> "countdown", hours |-> 0, minutes |-> 0]

\* A clock_out written 18:00:30 is taken as a time of day.
C29_SecondsAccepted ==
    /\ Returned("calculate_work_status")
    /\ Len(request.clock_out) = 8
    /\ outcome.kind = "countdown"

(***************************************************************************)
(* SpecPreview: successive preview requests served by the backend.         *)
(* ret is the set of files of PREVIEW_DIR: name is the second of the       *)
(* timestamp in the file name, mtime the time of the last write, and by    *)
(* records the request that wrote the file.  call is the wall clock in     *)
(* seconds, calls_left the requests still to come.  The writes of the demo *)
(* client succeed.                                                         *)
(***************************************************************************)
MaxPreviews == 3

PreviewDevice == "preview-device"
PreviewMachine == MakeFs(FullListing, FullSystem, KnownPaths(FullListing, FullSystem))

PreviewEnv(view_class, draw_ok) ==
    CHOOSE e \in Envs(view_class) :
        /\ e.deliver_ok /\ e.draw_ok = draw_ok
        /\ e.response = Response("ok", 200, "data")

\* The preview requests a configuration page sends: view type, params, and
\* what the render meets.
PreviewRequests ==
    {[view_type |-> "image", params |-> [image_data |-> Bytes(ValidPng)],
      env |-> PreviewEnv("ImageView", TRUE)],
     [view_type |-> "image", params |-> [image_data |-> Bytes(GreyPng)],
      env |-> PreviewEnv("ImageView", TRUE)],
     [view_type |-> "image", params |-> NoParams,
      env |-> PreviewEnv("ImageView", TRUE)],
     [view_type |-> "text", params |-> ValidParams("TextView"),
      env |-> PreviewEnv("TextView", TRUE)],
     [view_type |-> "title_image", params |-> ValidParams("TitleImageView"),
      env |-> PreviewEnv("TitleImageView", TRUE)],
     [view_type |-> "title_image", params |-> ValidParams("TitleImageView"),
      env |-> PreviewEnv("TitleImageView", FALSE)],
     [view_type |-> "code_status", params |-> ValidParams("CodeStatusView"),
      env |-> PreviewEnv("CodeStatusView", FALSE)],
     [view_type |-> "unknown", params |-> NoParams,
      env |-> PreviewEnv("TextView", TRUE)]}

\* DemoClient.display_image at the second now, during request id: the
\* decoded image is written to demo_<timestamp>.png, over a file of the
\* same second.
DemoClient_display_image(dir, payload, now, id) ==
    {f \in dir : f.name # now}
        \cup {[name |-> now, data |-> b64decode(payload.image), mtime |-> id, by |-> id]}

\* The directory after the demo client has served the requests of sent in
\* order; display_text writes nothing.
RECURSIVE DemoClient_serve(_, _, _, _)
DemoClient_serve(dir, sent, now, id) ==
    IF sent = <<>> THEN dir
    ELSE DemoClient_serve(IF Head(sent).kind = "image"
                          THEN DemoClient_display_image(dir, Head(sent), now, id)
                          ELSE dir,
                          Tail(sent), now, id)

PreviewResponse(status, image, filename, by, dir) ==
    [status |-> status, image |-> image, filename |-> filename, by |-> by, dir |-> dir]

\* The most recent file: max(preview_files, key=st_mtime).
latest_of(preview_files) ==
    CHOOSE f \in preview_files : \A g \in preview_files : g.mtime <= f.mtime

\* Lines 144-152: the file is read and returned encoded.
PreviewOf(latest_file, preview_files) ==
    PreviewResponse(200, b64encode(latest_file.data), latest_file.name,
                    latest_file.by, preview_files)

\* Lines 136-156 once the view has been executed with outcome exc and the
\* directory holds preview_files.  Any exception, that of an empty directory
\* included, becomes status 500.
PreviewAnswer(exc, preview_files) ==
    IF exc # NoException \/ preview_files = {}
    THEN PreviewResponse(500, <<>>, 0, 0, preview_files)
    ELSE PreviewOf(latest_of(preview_files), preview_files)

PreviewAfter(o, dir, now, id) ==
    PreviewAnswer(o.exc, DemoClient_serve(dir, o.sent, now, id))

\* generate_preview: the view is executed with a demo client on PREVIEW_DIR,
\* then the file of PREVIEW_DIR with the greatest st_mtime is returned.
generate_preview(dir, registry, files, req, now, id) ==
    PreviewAfter(execute_view(registry, req.view_type, PreviewDevice, req.params,
                              TRUE, files, req.env),
                 dir, now, id)

InitPreview ==
    /\ pc = "preview"
    /\ fs = PreviewMachine
    /\ view_registry = BuiltinViews
    /\ ret = {}
    /\ call = 1
    /\ calls_left = MaxPreviews
    /\ request = [op |-> "none", id |-> 0]
    /\ outcome = PreviewResponse(500, <<>>, 0, 0, {})
    /\ text = Unused /\ font = Unused /\ max_width = Unused /\ lines = Unused
    /\ fm = Unused /\ fit = Unused

\* The response is sent; outcome.dir keeps the files the request wrote.
Respond(response, req, id) ==
    /\ request' = [op |-> "generate_preview", id |-> id,
                   view_type |-> req.view_type, params |-> req.params,
                   env |-> req.env]
    /\ outcome' = [response EXCEPT !.dir = {f \in @ : f.by = id}]
    /\ ret' = response.dir

\* POST /api/preview, in the same second as the request before or in the
\* next one.
GeneratePreview(req, elapsed) ==
    /\ calls_left > 0
    /\ Respond(generate_preview(ret, view_registry, fs, req, call + elapsed,
                                request.id + 1),
               req, request.id + 1)
    /\ call' = call + elapsed
    /\ calls_left' = calls_left - 1
    /\ UNCHANGED <<pc, wrapVars, fs, fm, fit, view_registry>>

NextPreview == \E req \in PreviewRequests, elapsed \in {0, 1} : GeneratePreview(req, elapsed)

SpecPreview == InitPreview /\ [][NextPreview]_vars

Previewed == pc = "preview" /\ request.op = "generate_preview"

\* C30: the image a preview request returns is the one the demo client
\* saved during that same request; a request whose render delivers no image
\* returns no image of an earlier request.
C30_PreviewIsOwnImage ==
    (Previewed /\ outcome.status = 200) =>
        /\ outcome.by = request.id
        /\ \E f \in outcome.dir : outcome.image = b64encode(f.data)

\* What the code returns: the newest file of the directory, which is the
\* request's own image when its render saved one and otherwise the image of
\* the last request that saved one; status 500 only when the render raised
\* or the directory is empty.
C30_PreviewIsNewestFile ==
    Previewed =>
        IF outcome.status = 200
        THEN /\ \E f \in ret :
                   /\ f.name = outcome.filename /\ f.by = outcome.by
                   /\ outcome.image = b64encode(f.data)
                   /\ \A g \in ret : g.mtime <= f.mtime
             /\ outcome.dir # {} => outcome.by = request.id
             /\ outcome.dir = {} => outcome.by < request.id
        ELSE outcome.dir = {}

\* A text preview after an image preview answers with the image of the
\* earlier request.
C30_TextPreviewReturnsEarlierImage ==
    /\ Previewed
    /\ request.view_type = "text"
    /\ outcome.status = 200
    /\ outcome.by < request.id

\* A status card whose drawing failure was swallowed answers with the image
\* of an earlier request.
C30_SwallowedFailureReturnsEarlierImage ==
    /\ Previewed
    /\ request.view_type = "code_status"
    /\ outcome.status = 200
    /\ outcome.by < request.id

=============================================================================
